---- MODULE Spec2Model ----
(***************************************************************************)
(* A model of the metrics-and-diagnostics engine of go-code-health-analyzer *)
(* (package analyzer).  Each analyzer is a pure function of the facts the   *)
(* parser extracts; the model draws those facts from bounded sets in Init   *)
(* and applies the analyzers as actions, one specification per analyzer:    *)
(*   SpecDiag     PerformDiagnostics over a list of PackageResult           *)
(*   SpecCluster  AnalyzeMethodClustering, then detectMethodIslands         *)
(*   SpecLcom     calculateStructLCOM4 over the union-find                  *)
(*   SpecDeps     buildDependencyGraph, CalculateCoupling,                  *)
(*                CalculateDependencyDepth                                  *)
(*   SpecFunc     CalculateComplexity (complexity, LoC, afferent)           *)
(*   SpecMetrics  the coupling and the function metrics of one analysis     *)
(*   SpecEstimate estimateClusterCount over the eigenvalues of the PCA      *)
(*   SpecField    AnalyzeFieldMatrix                                        *)
(*   SpecLcomOrder calculateStructLCOM4 in every order of its inputs        *)
(*   SpecParse    parsePackages and the package list of Analyze             *)
(*   SpecUnionFind the unionFind, call by call                              *)
(* A Go string is a sequence of characters (one-character TLA+ strings;     *)
(* a literal of a format string may stand as one element).                  *)
(***************************************************************************)
EXTENDS Integers, Sequences, FiniteSets, TLC

VARIABLES
    pc,            \* position of the run inside the specification's pipeline
    packages,      \* []PackageResult handed to PerformDiagnostics
    diagnostics,   \* []DiagnosticResult built by PerformDiagnostics
    structFacts,   \* per struct of the package: the map extractAllMethods returns
    lcomInput,     \* a struct's fields (extractFields) and methods (extractMethods)
    lcomResult,    \* the StructResult of calculateStructLCOM4
    parsed,        \* the project prefix and the parsed packages with their imports
    pkgDeps,       \* map[string]*PackageDependency of buildDependencyGraph
    coupling,      \* map[string]CouplingMetrics of CalculateCoupling
    depths,        \* map[string]int of CalculateDependencyDepth
    funcDecls,     \* the function declarations of a package, in source order
    functions,     \* []FunctionResult of CalculateComplexity
    fmInput,       \* a struct's fields and the methods of its file, for AnalyzeFieldMatrix
    fmResult,      \* the *FieldMatrixAnalysis AnalyzeFieldMatrix returns
    eigenvalues,   \* the eigenvalues computeTopEigenvalues returned
    pcaResult,     \* the estimate and the explained variance of estimateClustersViaPCA
    tree,          \* the directories under the target path and the exclude patterns
    report,        \* what Analyze returns for the tree: the *Report or the error
    unionFind,     \* a unionFind: its parent and rank maps
    ufLinks,       \* the pairs of nodes union has been called on so far
    ufCalls        \* the calls a caller of the unionFind has still to make

diagVars == <<packages, diagnostics>>
clusterVars == <<structFacts>>
lcomVars == <<lcomInput, lcomResult>>
depsVars == <<parsed, pkgDeps, coupling, depths>>
funcVars == <<funcDecls, functions>>
fieldVars == <<fmInput, fmResult, eigenvalues, pcaResult>>
parseVars == <<tree, report>>
ufVars == <<unionFind, ufLinks, ufCalls>>
vars == <<pc, diagVars, clusterVars, lcomVars, depsVars, funcVars, fieldVars, parseVars, ufVars>>

\* the variables of the analyzers a specification does not run
DiagIdle == packages = <<>> /\ diagnostics = <<>>
ClusterIdle == structFacts = <<>>
LcomIdle == lcomInput = <<>> /\ lcomResult = <<>>
DepsIdle == parsed = <<>> /\ pkgDeps = <<>> /\ coupling = <<>> /\ depths = <<>>
FuncIdle == funcDecls = <<>> /\ functions = <<>>
FieldIdle == fmInput = <<>> /\ fmResult = <<>> /\ eigenvalues = <<>> /\ pcaResult = <<>>
ParseIdle == tree = <<>> /\ report = <<>>
UfIdle == unionFind = <<>> /\ ufLinks = {} /\ ufCalls = <<>>

(***************************************************************************)
(* Bounds of the model.                                                     *)
(***************************************************************************)
MaxPkgs == 2
MaxStructs == 2
\* methods of a struct with an arbitrary call graph
MaxMethods == 2
\* distinct callees of one such method
MaxCallees == 1
\* private methods of a struct whose calls form chains
MaxChain == 13
\* the calls of a chain are among its first MaxLinks + 1 methods
MaxLinks == 5
\* methods and fields of the struct calculateStructLCOM4 runs on
MaxLcomMethods == 2
MaxFields == 2
\* directories of the project that can hold a package, and import
\* declarations of all the analysed packages together
MaxDepPkgs == 3
MaxEdges == 2
\* nodes of the body of the function whose complexity is computed
MaxNodes == 3
\* the last line of the file whose functions' lines are counted
MaxLine == 3
\* functions of the package whose calls are counted, and call expressions in
\* all their bodies together
MaxFuncs == 3
MaxCalls == 2
\* eigenvalues handed to estimateClusterCount
MaxEigen == 4
\* methods and fields together of the struct whose cohesion is computed in
\* every order
MaxOrderNodes == 4
\* fields and methods of the struct AnalyzeFieldMatrix runs on, and nodes of
\* the body of its first method
MaxFmFields == 3
MaxFmMethods == 3
MaxAccess == 2

(***************************************************************************)
(* Generic helpers.                                                         *)
(***************************************************************************)
Flatten(ss) ==
    LET F[i \in 0..Len(ss)] == IF i = 0 THEN <<>> ELSE F[i - 1] \o ss[i]
    IN  F[Len(ss)]

Range(s) == {s[i] : i \in DOMAIN s}

\* the sequences whose i-th element is drawn from the i-th set of ss
RECURSIVE SeqProduct(_)
SeqProduct(ss) ==
    IF ss = <<>> THEN {<<>>}
    ELSE {<<h>> \o t : h \in Head(ss), t \in SeqProduct(Tail(ss))}

\* every order in which a Go map with key set S can be iterated
Orderings(S) ==
    {s \in [1..Cardinality(S) -> S] : \A i, j \in 1..Cardinality(S) : i # j => s[i] # s[j]}

\* strings.HasPrefix on character sequences
HasPrefix(s, prefix) ==
    Len(s) >= Len(prefix) /\ SubSeq(s, 1, Len(prefix)) = prefix

\* a nil *MethodClusterAnalysis / *FieldMatrixAnalysis
Nil == [isNil |-> TRUE]

Max(a, b) == IF a > b THEN a ELSE b
Min(a, b) == IF a < b THEN a ELSE b

Dot == <<".">>
Dash == <<"-">>

(***************************************************************************)
(* unionFind (analyzer/lcom4.go): parent and rank are Go maps; reading a    *)
(* missing key yields the zero value.                                       *)
(***************************************************************************)
EmptyString == <<>>
EmptyMap == <<>>

Get(m, k, zero) == IF k \in DOMAIN m THEN m[k] ELSE zero

Put(m, k, v) == [x \in (DOMAIN m) \cup {k} |-> IF x = k THEN v ELSE m[x]]

newUnionFind == [parent |-> EmptyMap, rank |-> EmptyMap]

\* add without the test for an existing node
add_Overwrite(uf, node) ==
    [parent |-> Put(uf.parent, node, node), rank |-> Put(uf.rank, node, 0)]

add(uf, node) ==
    IF node \in DOMAIN uf.parent
    THEN uf
    ELSE [parent |-> Put(uf.parent, node, node), rank |-> Put(uf.rank, node, 0)]

\* the value find returns
RECURSIVE findRoot(_, _)
findRoot(parent, node) ==
    LET p == Get(parent, node, EmptyString)
    IN  IF p = node THEN p ELSE findRoot(parent, p)

\* the nodes whose parent entry find assigns: the path from node up to the root
RECURSIVE findPath(_, _)
findPath(parent, node) ==
    LET p == Get(parent, node, EmptyString)
    IN  IF p = node THEN {} ELSE {node} \cup findPath(parent, p)

\* find with path compression: the root, and the union-find it leaves behind
find(uf, node) ==
    LET root == findRoot(uf.parent, node)
        path == findPath(uf.parent, node)
    IN  [root |-> root,
         uf   |-> [uf EXCEPT !.parent =
                      [x \in (DOMAIN uf.parent) \cup path |->
                          IF x \in path THEN root ELSE uf.parent[x]]]]

union_NoMerge(uf, node1, node2) == find(find(uf, node1).uf, node2).uf

union_NoFind(uf, node1, node2) == [uf EXCEPT !.parent = Put(uf.parent, node2, node1)]

union(uf, node1, node2) ==
    LET f1 == find(uf, node1)
        f2 == find(f1.uf, node2)
        root1 == f1.root
        root2 == f2.root
        u == f2.uf
        rank1 == Get(u.rank, root1, 0)
        rank2 == Get(u.rank, root2, 0)
    IN  IF root1 = root2 THEN u
        ELSE IF rank1 < rank2 THEN [u EXCEPT !.parent = Put(u.parent, root1, root2)]
        ELSE IF rank1 > rank2 THEN [u EXCEPT !.parent = Put(u.parent, root2, root1)]
        ELSE [parent |-> Put(u.parent, root2, root1), rank |-> Put(u.rank, root1, rank1 + 1)]

\* add, then union, over sequences of nodes and of <<node1, node2>> pairs
addAll(uf, nodes) ==
    LET F[i \in 0..Len(nodes)] == IF i = 0 THEN uf ELSE add(F[i - 1], nodes[i])
    IN  F[Len(nodes)]

unionAll(uf, pairs) ==
    LET F[i \in 0..Len(pairs)] ==
            IF i = 0 THEN uf ELSE union(F[i - 1], pairs[i][1], pairs[i][2])
    IN  F[Len(pairs)]

\* componentMap of getComponents without the order of its lists: the set of
\* the member sets, one per root
componentSets(uf) ==
    {{n \in DOMAIN uf.parent : findRoot(uf.parent, n) = r} :
        r \in {findRoot(uf.parent, n) : n \in DOMAIN uf.parent}}

\* every order of the elements of S
RECURSIVE Perms(_)
Perms(S) ==
    IF S = {} THEN {<<>>}
    ELSE UNION {{<<x>> \o q : q \in Perms(S \ {x})} : x \in S}

\* getComponents ranges over the map parent and then over componentMap: the
\* lists it can return are the orders of the components, each in any order of
\* its members
getComponents(uf) ==
    UNION {SeqProduct([i \in 1..Len(o) |-> Perms(o[i])]) : o \in Perms(componentSets(uf))}

(***************************************************************************)
(* Method responsibility clustering (analyzer/method_clustering.go).        *)
(* methods is the map extractAllMethods returns: full name |-> methodCallInfo *)
(* with isPrivate, isUtility and calls (callee full name |-> frequency).    *)
(***************************************************************************)
WeightThreshold == 1
MinClusterSize == 2

\* the characters of the model in byte order, and their classes
Alphabet ==
    <<"-", ".", "G", "R", "S", "T", "X", "a", "b", "c", "d", "e", "f", "g", "h", "i", "j",
      "k", "l", "m", "n", "o", "p", "r", "s", "t", "u">>

CharIndex(c) == CHOOSE i \in 1..Len(Alphabet) : Alphabet[i] = c

LowerLetters ==
    <<"a", "b", "c", "d", "e", "f", "g", "h", "i", "j", "k", "l", "m", "n", "o", "p", "q",
      "r", "s", "t", "u", "v", "w", "x", "y", "z">>

UpperLetters ==
    <<"A", "B", "C", "D", "E", "F", "G", "H", "I", "J", "K", "L", "M", "N", "O", "P", "Q",
      "R", "S", "T", "U", "V", "W", "X", "Y", "Z">>

DecimalDigits == <<"0", "1", "2", "3", "4", "5", "6", "7", "8", "9">>

IsUpper(c) == c \in Range(UpperLetters)
IsLower(c) == c \in Range(LowerLetters)

ToLowerChar(c) ==
    IF IsUpper(c) THEN LowerLetters[CHOOSE i \in 1..26 : UpperLetters[i] = c] ELSE c

ToUpperChar(c) ==
    IF IsLower(c) THEN UpperLetters[CHOOSE i \in 1..26 : LowerLetters[i] = c] ELSE c

ToLower(str) == [i \in 1..Len(str) |-> ToLowerChar(str[i])]

\* strings.Title: the letters that begin a word in upper case; a word ends
\* at a character that is no letter, digit or underscore
IsSeparator(c) == ~(IsUpper(c) \/ IsLower(c) \/ c \in Range(DecimalDigits) \/ c = "_")

Title(str) ==
    [i \in 1..Len(str) |->
        IF i = 1 \/ IsSeparator(str[i - 1]) THEN ToUpperChar(str[i]) ELSE str[i]]

\* strings.Contains
Contains(str, pattern) ==
    \E i \in 1..(Len(str) - Len(pattern) + 1) : SubSeq(str, i, i + Len(pattern) - 1) = pattern

\* a < b in the byte order of Go strings
RECURSIVE StringLess(_, _)
StringLess(a, b) ==
    IF b = <<>> THEN FALSE
    ELSE IF a = <<>> THEN TRUE
    ELSE IF Head(a) # Head(b) THEN CharIndex(Head(a)) < CharIndex(Head(b))
    ELSE StringLess(Tail(a), Tail(b))

\* sort.Strings of the names of a set
RECURSIVE SortStrings(_)
SortStrings(S) ==
    IF S = {} THEN <<>>
    ELSE LET least == CHOOSE x \in S : \A y \in S : x = y \/ StringLess(x, y)
         IN  <<least>> \o SortStrings(S \ {least})

\* the part of a full name after its last "."
RECURSIVE lastPart(_)
lastPart(name) ==
    IF Dot[1] \in Range(name)
    THEN lastPart(Tail(name))
    ELSE name

isPrivateMethod(methodName) ==
    IF Len(methodName) = 0 THEN FALSE
    ELSE IsLower(lastPart(methodName)[1])

isUtilityMethod(methodName) ==
    \/ \E pattern \in {<<"t", "e", "s", "t">>, <<"u", "t", "i", "l">>,
                       <<"h", "e", "l", "p", "e", "r">>, <<"m", "o", "c", "k">>,
                       <<"s", "t", "u", "b">>} :
           Contains(ToLower(methodName), pattern)
    \/ \E prefix \in {<<"G", "e", "t">>, <<"S", "e", "t">>, <<"I", "s">>, <<"H", "a", "s">>} :
           /\ HasPrefix(methodName, prefix)
           /\ Len(methodName) > Len(prefix)
           /\ IsUpper(methodName[Len(prefix) + 1])

\* the maps privateMethods and publicMethods AnalyzeMethodClustering splits
\* methods into, by isPrivateMethod of the full name
privateMethodsOf(methods) ==
    [n \in {n \in DOMAIN methods : isPrivateMethod(n)} |-> methods[n]]
publicMethodsOf(methods) ==
    [n \in {n \in DOMAIN methods : ~isPrivateMethod(n)} |-> methods[n]]

buildPrivateMethodCallGraph_AnyCallee(privateMethods, allMethods) ==
    [privateMethod \in DOMAIN privateMethods |->
        IF privateMethod \in DOMAIN allMethods /\ allMethods[privateMethod].isUtility
        THEN EmptyMap
        ELSE LET calls == allMethods[privateMethod].calls
             IN  [calledMethod \in {c \in DOMAIN calls :
                                       /\ c \in DOMAIN privateMethods
                                       /\ calls[c] >= WeightThreshold} |->
                     calls[calledMethod]]]

buildPrivateMethodCallGraph(privateMethods, allMethods) ==
    [privateMethod \in DOMAIN privateMethods |->
        IF privateMethod \in DOMAIN allMethods /\ allMethods[privateMethod].isUtility
        THEN EmptyMap
        ELSE LET calls == allMethods[privateMethod].calls
             IN  [calledMethod \in {c \in DOMAIN calls :
                                       /\ c \in DOMAIN privateMethods
                                       /\ ~privateMethods[c].isUtility
                                       /\ calls[c] >= WeightThreshold} |->
                     calls[calledMethod]]]

\* the edges of a call graph as <<caller, callee>> pairs, in name order
callPairs(callGraph) ==
    Flatten([i \in 1..Len(SortStrings(DOMAIN callGraph)) |->
        LET caller == SortStrings(DOMAIN callGraph)[i]
            callees == SortStrings(DOMAIN callGraph[caller])
        IN  [j \in 1..Len(callees) |-> <<caller, callees[j]>>]])

\* the union-find of findMethodClusters after its two loops.  Both loops range
\* over Go maps; the partition they leave is the same in every order, and the
\* model takes the names in name order.
clusterUnionFind(callGraph, privateMethods) ==
    LET nodes == {m \in DOMAIN privateMethods : ~privateMethods[m].isUtility}
    IN  unionAll(addAll(newUnionFind, SortStrings(nodes)), callPairs(callGraph))

\* findMethodClusters without the sort by size: the clusters stay in the
\* order getComponents returned the components in
findMethodClusters_Unsorted(callGraph, privateMethods) ==
    LET components == componentSets(clusterUnionFind(callGraph, privateMethods))
        minSize == MinClusterSize
        kept == {c \in components :
                    Cardinality(c) >= minSize \/ Cardinality(components) = 1}
    IN  {[i \in 1..Len(o) |->
            [ID |-> i, Methods |-> SortStrings(o[i]), Size |-> Cardinality(o[i])]] :
         o \in Perms(kept)}

\* the lists findMethodClusters can return.  minSize stays MinClusterSize: the
\* function computes ratioBasedMin = max(int(totalMethods * MinClusterRatio),
\* MinClusterSize) and never uses it.  components arrive in map order and
\* sort.Slice is not stable, so clusters of equal size come in any order.
findMethodClusters(callGraph, privateMethods) ==
    LET components == componentSets(clusterUnionFind(callGraph, privateMethods))
        minSize == MinClusterSize
        kept == {c \in components :
                    Cardinality(c) >= minSize \/ Cardinality(components) = 1}
    IN  {[i \in 1..Len(o) |->
            [ID |-> i, Methods |-> SortStrings(o[i]), Size |-> Cardinality(o[i])]] :
         o \in {q \in Perms(kept) :
                  \A i \in 1..(Len(q) - 1) : Cardinality(q[i]) >= Cardinality(q[i + 1])}}

\* calledBy of extractAllMethods, as a set: the methods whose calls name m
calledByOf(allMethods, m) == {caller \in DOMAIN allMethods : m \in DOMAIN allMethods[caller].calls}

findPublicCallers(cluster, publicMethods, allMethods) ==
    SortStrings({caller \in DOMAIN publicMethods :
                    \E i \in 1..Len(cluster.Methods) :
                        /\ cluster.Methods[i] \in DOMAIN allMethods
                        /\ caller \in calledByOf(allMethods, cluster.Methods[i])})

HasMultipleIslands_AtLeastOne(clusters) == Len(clusters) >= 1

HasMultipleIslands(clusters) == Len(clusters) >= 2

\* splitCamelCase from index i (1-based) on
RECURSIVE splitCamelCaseFrom(_, _, _, _)
splitCamelCaseFrom(s, i, words, currentWord) ==
    IF i > Len(s)
    THEN IF Len(currentWord) > 0 THEN Append(words, currentWord) ELSE words
    ELSE IF i > 1 /\ IsUpper(s[i]) /\ Len(currentWord) > 0
    THEN splitCamelCaseFrom(s, i + 1, Append(words, currentWord), <<s[i]>>)
    ELSE splitCamelCaseFrom(s, i + 1, words, Append(currentWord, s[i]))

splitCamelCase(s) == splitCamelCaseFrom(s, 1, <<>>, <<>>)

SkippedWords == {<<"g", "e", "t">>, <<"s", "e", "t">>, <<"i", "s">>, <<"h", "a", "s">>,
                 <<"d", "o">>}

\* the hints suggestResponsibility can return: the loop that picks the most
\* common keyword ranges over the map keywords and keeps the first word
\* whose count exceeds the highest so far, which is any of the words with
\* the highest count
suggestResponsibility(methods) ==
    LET wordsOf(method) ==
            IF Dot[1] \notin Range(method) THEN <<>>
            ELSE LET words == splitCamelCase(lastPart(method))
                 IN  SelectSeq([k \in 1..Len(words) |-> ToLower(words[k])],
                               LAMBDA word : word \notin SkippedWords)
        all == Flatten([i \in 1..Len(methods) |-> wordsOf(methods[i])])
        keywords == [word \in Range(all) |-> Cardinality({k \in 1..Len(all) : all[k] = word})]
        commonWords == {word \in DOMAIN keywords :
                           \A other \in DOMAIN keywords : keywords[other] <= keywords[word]}
    IN  IF Len(methods) = 0 THEN {<<"Unknown">>}
        ELSE IF commonWords = {} THEN {<<"Mixed operations">>}
        ELSE {Title(commonWord) \o <<"-related operations">> : commonWord \in commonWords}

\* the results AnalyzeMethodClustering can return for one struct
AnalyzeMethodClustering(methods) ==
    IF DOMAIN methods = {} THEN {Nil}
    ELSE IF DOMAIN privateMethodsOf(methods) = {} THEN {Nil}
    ELSE LET privateMethods == privateMethodsOf(methods)
             publicMethods == publicMethodsOf(methods)
             callGraph == buildPrivateMethodCallGraph(privateMethods, methods)
         IN  UNION {{[isNil |-> FALSE,
                      TotalPrivateMethods |-> Cardinality(DOMAIN privateMethods),
                      ClusterCount |-> Len(clusters),
                      Clusters |-> [i \in 1..Len(clusters) |->
                                       [ID |-> clusters[i].ID,
                                        Methods |-> clusters[i].Methods,
                                        Size |-> clusters[i].Size,
                                        CalledBy |-> findPublicCallers(clusters[i],
                                                        publicMethods, methods),
                                        ResponsibilityHint |-> hints[i]]],
                      HasMultipleIslands |-> HasMultipleIslands(clusters)] :
                     hints \in SeqProduct([i \in 1..Len(clusters) |->
                                  suggestResponsibility(clusters[i].Methods)])} :
                    clusters \in findMethodClusters(callGraph, privateMethods)}

(***************************************************************************)
(* Diagnostics engine (analyzer/diagnostics.go).                            *)
(* A finding is a DiagnosticResult; Message holds the arguments of the      *)
(* format string, RelatedPath and TargetName are the formatted strings.     *)
(***************************************************************************)
\* float64(ce) / float64(ca+ce) >= 0.7, on the exact ratio num/den
AtLeastSevenTenths(r) == 10 * r.num >= 7 * r.den

godObjectFinding(pkg, s) ==
    [Type        |-> "God Object",
     TargetName  |-> pkg.Name \o Dot \o s.StructName,
     Message     |-> [struct |-> s.StructName, lcom4 |-> s.LCOM4Score, ca |-> pkg.Afferent],
     Severity    |-> "Critical",
     Evidence    |-> [lcom4_score |-> s.LCOM4Score, afferent |-> pkg.Afferent,
                      package |-> pkg.Name, file_path |-> s.FilePath],
     RelatedPath |-> <<"#struct-">> \o pkg.Path \o Dash \o s.StructName]

detectGodObjects_LcomOnly(pkgs) ==
    Flatten([k \in 1..Len(pkgs) |->
        Flatten([i \in 1..Len(pkgs[k].Structs) |->
            IF pkgs[k].Structs[i].LCOM4Score >= 5
            THEN <<godObjectFinding(pkgs[k], pkgs[k].Structs[i])>>
            ELSE <<>>])])

detectGodObjects(pkgs) ==
    Flatten([k \in 1..Len(pkgs) |->
        IF pkgs[k].Afferent < 10
        THEN <<>>
        ELSE Flatten([i \in 1..Len(pkgs[k].Structs) |->
                IF pkgs[k].Structs[i].LCOM4Score >= 5
                THEN <<godObjectFinding(pkgs[k], pkgs[k].Structs[i])>>
                ELSE <<>>])])

unstableFinding(pkg) ==
    [Type        |-> "Unstable Foundation",
     TargetName  |-> pkg.Name,
     Message     |-> [package |-> pkg.Name, ca |-> pkg.Afferent, i |-> pkg.Instability],
     Severity    |-> "Critical",
     Evidence    |-> [afferent |-> pkg.Afferent, efferent |-> pkg.Efferent,
                      instability |-> pkg.Instability, package |-> pkg.Name],
     RelatedPath |-> <<"#package-">> \o pkg.Path]

detectUnstableFoundations_InstabilityOnly(pkgs) ==
    Flatten([k \in 1..Len(pkgs) |->
        IF AtLeastSevenTenths(pkgs[k].Instability)
        THEN <<unstableFinding(pkgs[k])>>
        ELSE <<>>])

detectUnstableFoundations(pkgs) ==
    Flatten([k \in 1..Len(pkgs) |->
        IF pkgs[k].Afferent >= 10 /\ AtLeastSevenTenths(pkgs[k].Instability)
        THEN <<unstableFinding(pkgs[k])>>
        ELSE <<>>])

complexFunctionFinding(pkg, f) ==
    [Type        |-> "Overly Complex Function",
     TargetName  |-> pkg.Name \o Dot \o f.FuncName,
     Message     |-> [function |-> f.FuncName, complexity |-> f.Complexity],
     Severity    |-> "Warning",
     Evidence    |-> [complexity |-> f.Complexity, function |-> f.FuncName,
                      package |-> pkg.Name, file_path |-> f.FilePath],
     RelatedPath |-> <<"#function-">> \o pkg.Path \o Dash \o f.FuncName]

detectComplexFunctions_Above15(pkgs) ==
    Flatten([k \in 1..Len(pkgs) |->
        Flatten([i \in 1..Len(pkgs[k].Functions) |->
            IF pkgs[k].Functions[i].Complexity > 15
            THEN <<complexFunctionFinding(pkgs[k], pkgs[k].Functions[i])>>
            ELSE <<>>])])

detectComplexFunctions(pkgs) ==
    Flatten([k \in 1..Len(pkgs) |->
        Flatten([i \in 1..Len(pkgs[k].Functions) |->
            IF pkgs[k].Functions[i].Complexity >= 15
            THEN <<complexFunctionFinding(pkgs[k], pkgs[k].Functions[i])>>
            ELSE <<>>])])

\* methodComplexity[f.FuncName] = f.Complexity, a later function overwriting an
\* earlier one of the same name
methodComplexity(pkg) ==
    [n \in {pkg.Functions[i].FuncName : i \in 1..Len(pkg.Functions)} |->
        LET last == CHOOSE i \in 1..Len(pkg.Functions) :
                        /\ pkg.Functions[i].FuncName = n
                        /\ \A j \in (i + 1)..Len(pkg.Functions) : pkg.Functions[j].FuncName # n
        IN  pkg.Functions[last].Complexity]

\* the function names the inner loop of detectAmbiguousStructs appends
complexMethodsOf(pkg, s) ==
    LET mc == methodComplexity(pkg)
        structPrefix == s.StructName \o Dot
    IN  {funcName \in DOMAIN mc :
            /\ Len(funcName) > Len(structPrefix)
            /\ SubSeq(funcName, 1, Len(structPrefix)) = structPrefix
            /\ mc[funcName] >= 10}

ambiguousFinding(pkg, s, complexMethods) ==
    [Type        |-> "Ambiguous Struct",
     TargetName  |-> pkg.Name \o Dot \o s.StructName,
     Message     |-> [struct |-> s.StructName, lcom4 |-> s.LCOM4Score],
     Severity    |-> "Warning",
     Evidence    |-> [lcom4_score |-> s.LCOM4Score, complex_methods |-> complexMethods,
                      package |-> pkg.Name, file_path |-> s.FilePath],
     RelatedPath |-> <<"#struct-">> \o pkg.Path \o Dash \o s.StructName]

ambiguousSubjects_NoLcomCheck(pkgs) ==
    Flatten([k \in 1..Len(pkgs) |->
        Flatten([i \in 1..Len(pkgs[k].Structs) |->
            IF complexMethodsOf(pkgs[k], pkgs[k].Structs[i]) # {}
            THEN <<(<<k, i>>)>>
            ELSE <<>>])])

\* the <<package index, struct index>> pairs detectAmbiguousStructs reports, in order
ambiguousSubjects(pkgs) ==
    Flatten([k \in 1..Len(pkgs) |->
        Flatten([i \in 1..Len(pkgs[k].Structs) |->
            IF /\ pkgs[k].Structs[i].LCOM4Score >= 3
               /\ complexMethodsOf(pkgs[k], pkgs[k].Structs[i]) # {}
            THEN <<(<<k, i>>)>>
            ELSE <<>>])])

\* detectAmbiguousStructs ranges over the map methodComplexity, so the order of
\* complex_methods is any order of the qualifying names: the set of lists the
\* function can return
detectAmbiguousStructs(pkgs) ==
    LET subj == ambiguousSubjects(pkgs)
        ords(j) == Orderings(complexMethodsOf(pkgs[subj[j][1]], pkgs[subj[j][1]].Structs[subj[j][2]]))
    IN  {[j \in 1..Len(subj) |->
            ambiguousFinding(pkgs[subj[j][1]], pkgs[subj[j][1]].Structs[subj[j][2]], o[j])] :
         o \in SeqProduct([j \in 1..Len(subj) |-> ords(j)])}

islandsFinding(pkg, s) ==
    LET mc == s.MethodClusters IN
    [Type        |-> "Split Responsibility (Method Islands)",
     TargetName  |-> pkg.Name \o Dot \o s.StructName,
     Message     |-> [struct |-> s.StructName, count |-> mc.ClusterCount,
                      summary |-> [i \in 1..Len(mc.Clusters) |->
                                      <<mc.Clusters[i].ID, mc.Clusters[i].Size,
                                        mc.Clusters[i].ResponsibilityHint>>]],
     Severity    |-> "Warning",
     Evidence    |-> [cluster_count |-> mc.ClusterCount,
                      total_private_methods |-> mc.TotalPrivateMethods,
                      clusters |-> mc.Clusters,
                      package |-> pkg.Name, file_path |-> s.FilePath],
     RelatedPath |-> <<"#struct-">> \o pkg.Path \o Dash \o s.StructName]

detectMethodIslands_Always(pkgs) ==
    Flatten([k \in 1..Len(pkgs) |->
        Flatten([i \in 1..Len(pkgs[k].Structs) |->
            LET s == pkgs[k].Structs[i] IN
            IF s.MethodClusters.isNil
            THEN <<>>
            ELSE <<islandsFinding(pkgs[k], s)>>])])

detectMethodIslands(pkgs) ==
    Flatten([k \in 1..Len(pkgs) |->
        Flatten([i \in 1..Len(pkgs[k].Structs) |->
            LET s == pkgs[k].Structs[i] IN
            IF s.MethodClusters.isNil \/ ~s.MethodClusters.HasMultipleIslands
            THEN <<>>
            ELSE <<islandsFinding(pkgs[k], s)>>])])

fieldClustersFinding(pkg, s, severity) ==
    LET fm == s.FieldMatrix IN
    [Type        |-> "Split Responsibility (Field Clusters)",
     TargetName  |-> pkg.Name \o Dot \o s.StructName,
     Message     |-> [struct |-> s.StructName, count |-> fm.EstimatedClusters,
                      recommendations |-> fm.Recommendations],
     Severity    |-> severity,
     Evidence    |-> [estimated_clusters |-> fm.EstimatedClusters,
                      explained_variance |-> fm.ExplainedVariance,
                      method_count |-> Len(fm.MethodNames),
                      field_count |-> Len(fm.FieldNames),
                      package |-> pkg.Name, file_path |-> s.FilePath,
                      recommendations |-> fm.Recommendations],
     RelatedPath |-> <<"#struct-">> \o pkg.Path \o Dash \o s.StructName]

detectFieldClusters_CriticalAbove3(pkgs) ==
    Flatten([k \in 1..Len(pkgs) |->
        Flatten([i \in 1..Len(pkgs[k].Structs) |->
            LET s == pkgs[k].Structs[i] IN
            IF s.FieldMatrix.isNil \/ ~s.FieldMatrix.HasMultipleResponsibilities
            THEN <<>>
            ELSE <<fieldClustersFinding(pkgs[k], s,
                     IF s.FieldMatrix.EstimatedClusters > 3 THEN "Critical" ELSE "Warning")>>])])

detectFieldClusters(pkgs) ==
    Flatten([k \in 1..Len(pkgs) |->
        Flatten([i \in 1..Len(pkgs[k].Structs) |->
            LET s == pkgs[k].Structs[i] IN
            IF s.FieldMatrix.isNil \/ ~s.FieldMatrix.HasMultipleResponsibilities
            THEN <<>>
            ELSE <<fieldClustersFinding(pkgs[k], s,
                     IF s.FieldMatrix.EstimatedClusters >= 3 THEN "Critical" ELSE "Warning")>>])])

(***************************************************************************)
(* The PackageResult lists PerformDiagnostics is run on.  A PackageResult   *)
(* is what Analyze builds: Instability is Ce/(Ca+Ce) of its own Afferent    *)
(* and Efferent (0 when both are 0); a struct without methods has LCOM4     *)
(* score 0 and neither clustering result; HasMultipleIslands and            *)
(* HasMultipleResponsibilities are set from the counts next to them.        *)
(***************************************************************************)
Letters == <<"a", "b", "c", "d", "e", "f", "g", "h">>
Capitals == <<"S", "T", "U", "V", "W", "X", "Y", "Z">>

PathOf(k) == <<Letters[k]>>
StructNameOf(i) == <<Capitals[i]>>
FileOf(i) == <<Letters[i], ".go">>

InstabilityOf_NoGuard(ca, ce) ==
    [num |-> ce, den |-> ca + ce]

\* instability := 0.0; if ca+ce > 0 { instability = float64(ce) / float64(ca+ce) },
\* as the exact ratio num/den
InstabilityOf(ca, ce) ==
    IF ca + ce > 0 THEN [num |-> ce, den |-> ca + ce] ELSE [num |-> 0, den |-> 1]

\* a MethodClusterAnalysis with n surviving clusters of two methods each,
\* which no public method calls; the hint is the one of the first method
McOf(n) ==
    [isNil |-> FALSE, TotalPrivateMethods |-> 2 * n, ClusterCount |-> n,
     Clusters |-> [i \in 1..n |->
                      [ID |-> i, Size |-> 2,
                       Methods |-> <<<<"S", ".", Letters[2 * i - 1]>>,
                                     <<"S", ".", Letters[2 * i]>>>>,
                       CalledBy |-> <<>>,
                       ResponsibilityHint |->
                           Title(<<Letters[2 * i - 1]>>) \o <<"-related operations">>]],
     HasMultipleIslands |-> n >= 2]

\* the FieldMatrixAnalysis with estimate n that AnalyzeFieldMatrix returns
\* for a struct with the fields f, g, h and the methods a, b: a reads f and
\* b reads g (n = 1), a uses no field and b writes h (n = 2), a reads f and
\* b writes h (n = 3).  The explained variances are 4/7, 2/21, 1/3 and
\* 20/43, 26/129, 1/3.
FmOf(n) ==
    LET r(num, den) == [num |-> num, den |-> den] IN
    [isNil |-> FALSE,
     Matrix |-> IF n = 1 THEN <<<<1, 0, 0>>, <<0, 1, 0>>>>
                ELSE IF n = 2 THEN <<<<0, 0, 0>>, <<0, 0, 2>>>>
                ELSE <<<<1, 0, 0>>, <<0, 0, 2>>>>,
     MethodNames |-> <<<<"a">>, <<"b">>>>,
     FieldNames |-> <<<<"f">>, <<"g">>, <<"h">>>>,
     EstimatedClusters |-> n,
     ExplainedVariance |-> IF n = 1 THEN <<>>
                           ELSE IF n = 2 THEN <<r(4, 7), r(2, 21), r(1, 3)>>
                           ELSE <<r(20, 43), r(26, 129), r(1, 3)>>,
     HasMultipleResponsibilities |-> n >= 2,
     Recommendations |->
         IF n = 1
         THEN [format |-> "single cohesive responsibility", args |-> <<2, 3>>]
         ELSE IF n = 2
         THEN [format |-> "distinct responsibility clusters",
               args |-> <<2, <<"5", "7", ".", "1", "%", ", ", "9", ".", "5", "%">>,
                          "strong", 2>>]
         ELSE [format |-> "distinct responsibility clusters",
               args |-> <<3, <<"4", "6", ".", "5", "%", ", ", "3", "3", ".", "3", "%", ", ",
                               "2", "0", ".", "2", "%">>, "moderate", 3>>]]

StructOf(i, lcom, mc, fm) ==
    [StructName |-> StructNameOf(i), FilePath |-> FileOf(i), LCOM4Score |-> lcom,
     MethodClusters |-> mc, FieldMatrix |-> fm]

\* struct i without methods, with every cohesion score alone, and with every
\* combination of clustering results next to a score of 3 or all of them at
\* their highest
RichStructs(i) ==
    {StructOf(i, 0, Nil, Nil)} \cup
    {StructOf(i, lcom, Nil, Nil) : lcom \in {2, 3, 4, 5, 6}} \cup
    {StructOf(i, 3, mc, fm) :
        mc \in {Nil, McOf(1), McOf(2)},
        fm \in {Nil, FmOf(1), FmOf(2), FmOf(3)}} \cup
    {StructOf(i, 5, McOf(2), FmOf(3))}

\* struct i with cohesion scores only
LeanStructs(i) ==
    {StructOf(i, lcom, Nil, Nil) : lcom \in IF i = 1 THEN {4, 5} ELSE {5}}

\* the lists of 0..MaxStructs structs, struct i drawn from one of the two pools
StructLists(rich) ==
    UNION {SeqProduct([i \in 1..n |-> IF rich THEN RichStructs(i) ELSE LeanStructs(i)]) :
           n \in 0..MaxStructs}

FuncOf(name, cx) == [FuncName |-> name, FilePath |-> <<"a", ".go">>, Complexity |-> cx]

\* the function lists of a package: plain functions and methods of S and T
FuncNames == {<<"f">>, <<"S", ".", "m">>, <<"S", ".", "n">>, <<"T", ".", "m">>}
FuncLists ==
    UNION {[1..n -> {FuncOf(name, cx) : name \in FuncNames, cx \in {9, 10, 14, 15}}] :
           n \in 0..2}

PkgOf(k, name, ca, ce, structs, funcs) ==
    [Name |-> name, Path |-> PathOf(k), Afferent |-> ca, Efferent |-> ce,
     Instability |-> InstabilityOf(ca, ce), Structs |-> structs, Functions |-> funcs]

\* one package with afferent coupling ca and efferent coupling ce, every
\* combination of struct results
StructFocus(ca, ce) ==
    {<<PkgOf(1, <<"p">>, ca, ce, structs, <<>>)>> : structs \in StructLists(TRUE)}

\* one package with efferent coupling ce, every combination of function
\* results; the struct of score 0 has its methods in another file than its
\* declaration, where calculateStructLCOM4 does not look
FuncFocus(ce) ==
    {<<PkgOf(1, <<"p">>, 12, ce, structs, funcs)>> :
        structs \in {<<StructOf(1, 2, Nil, Nil), StructOf(2, 3, Nil, Nil)>>,
                     <<StructOf(1, 3, Nil, Nil)>>,
                     <<StructOf(1, 0, Nil, Nil), StructOf(2, 3, Nil, Nil)>>},
        funcs \in FuncLists}

\* package k, possibly of the same name as another; the first can be unstable
LeanPkgs(k) ==
    {PkgOf(k, name, c[1], c[2], structs, <<>>) :
        name \in {<<"p">>, <<"q">>},
        c \in {<<9, 0>>, <<12, 0>>} \cup (IF k = 1 THEN {<<12, 28>>} ELSE {}),
        structs \in StructLists(FALSE)}

\* n packages
MultiPkg(n) == SeqProduct([k \in 1..n |-> LeanPkgs(k)])

(***************************************************************************)
(* PerformDiagnostics: the six detectors run in a fixed order, each         *)
(* appending its findings.                                                  *)
(***************************************************************************)
InitDiag ==
    /\ pc = "detectGodObjects"
    /\ \/ \E ca \in {9, 10, 12}, ce \in {0, 28} : packages \in StructFocus(ca, ce)
       \/ \E ce \in {23, 28} : packages \in FuncFocus(ce)
       \/ \E n \in 2..MaxPkgs : packages \in MultiPkg(n)
    /\ diagnostics = <<>>
    /\ ClusterIdle /\ LcomIdle /\ DepsIdle /\ FuncIdle /\ FieldIdle /\ ParseIdle /\ UfIdle

DetectGodObjects ==
    /\ pc = "detectGodObjects"
    /\ diagnostics' = diagnostics \o detectGodObjects(packages)
    /\ pc' = "detectUnstableFoundations"
    /\ UNCHANGED <<packages, structFacts, lcomVars, depsVars, funcVars, fieldVars, parseVars, ufVars>>

DetectUnstableFoundations ==
    /\ pc = "detectUnstableFoundations"
    /\ diagnostics' = diagnostics \o detectUnstableFoundations(packages)
    /\ pc' = "detectComplexFunctions"
    /\ UNCHANGED <<packages, structFacts, lcomVars, depsVars, funcVars, fieldVars, parseVars, ufVars>>

DetectComplexFunctions ==
    /\ pc = "detectComplexFunctions"
    /\ diagnostics' = diagnostics \o detectComplexFunctions(packages)
    /\ pc' = "detectAmbiguousStructs"
    /\ UNCHANGED <<packages, structFacts, lcomVars, depsVars, funcVars, fieldVars, parseVars, ufVars>>

DetectAmbiguousStructs ==
    /\ pc = "detectAmbiguousStructs"
    /\ \E r \in detectAmbiguousStructs(packages) : diagnostics' = diagnostics \o r
    /\ pc' = "detectMethodIslands"
    /\ UNCHANGED <<packages, structFacts, lcomVars, depsVars, funcVars, fieldVars, parseVars, ufVars>>

DetectMethodIslands ==
    /\ pc = "detectMethodIslands"
    /\ diagnostics' = diagnostics \o detectMethodIslands(packages)
    /\ pc' = "detectFieldClusters"
    /\ UNCHANGED <<packages, structFacts, lcomVars, depsVars, funcVars, fieldVars, parseVars, ufVars>>

DetectFieldClusters ==
    /\ pc = "detectFieldClusters"
    /\ diagnostics' = diagnostics \o detectFieldClusters(packages)
    /\ pc' = "diagnosed"
    /\ UNCHANGED <<packages, structFacts, lcomVars, depsVars, funcVars, fieldVars, parseVars, ufVars>>

NextDiag ==
    \/ DetectGodObjects
    \/ DetectUnstableFoundations
    \/ DetectComplexFunctions
    \/ DetectAmbiguousStructs
    \/ DetectMethodIslands
    \/ DetectFieldClusters

SpecDiag == InitDiag /\ [][NextDiag]_vars

\* PerformDiagnostics as one step: the lists it can return
PerformDiagnostics(pkgs) ==
    {detectGodObjects(pkgs) \o detectUnstableFoundations(pkgs) \o detectComplexFunctions(pkgs)
        \o ambiguous \o detectMethodIslands(pkgs) \o detectFieldClusters(pkgs) :
     ambiguous \in detectAmbiguousStructs(pkgs)}

(***************************************************************************)
(* The method facts AnalyzeMethodClustering is run on.  extractAllMethods   *)
(* sets isPrivate and isUtility from the method's name.                     *)
(***************************************************************************)
FullName(structName, methodName) == structName \o Dot \o methodName

methodCallInfo(structName, methodName, calls) ==
    [name |-> FullName(structName, methodName),
     isPrivate |-> isPrivateMethod(methodName),
     isUtility |-> isUtilityMethod(methodName),
     calls |-> calls]

\* the methods of a struct with an arbitrary call graph: three private ones, a
\* private utility and a public one
PoolNames == {<<"a">>, <<"b">>, <<"c">>, <<"u", "t", "i", "l">>, <<"R", "u", "n">>}

\* struct S with the methods M of the pool, method n calling the names cs[n]
\* of the pool (defined or not) once each
GeneralFacts(M, cs) ==
    LET S == <<"S">>
        callsOf(C) == [c \in {FullName(S, n) : n \in C} |-> 1]
    IN  [m \in {FullName(S, n) : n \in M} |->
            methodCallInfo(S, lastPart(m), callsOf(cs[lastPart(m)]))]

ChainName(i) == <<Alphabet[i + 7]>>

\* struct S with n private methods, method i calling method i + 1 (twice when
\* i is even) for the i of links
ChainFacts(n, links) ==
    LET S == <<"S">>
    IN  [m \in {FullName(S, ChainName(i)) : i \in 1..n} |->
            LET i == CHOOSE i \in 1..n : FullName(S, ChainName(i)) = m
            IN  methodCallInfo(S, ChainName(i),
                    IF i \in links
                    THEN [c \in {FullName(S, ChainName(i + 1))} |-> IF i % 2 = 0 THEN 2 ELSE 1]
                    ELSE EmptyMap)]

\* a second struct T with two islands of two private methods
TwoIslands ==
    LET T == <<"T">>
        callsOf(n) == IF n = <<"a">> THEN [c \in {FullName(T, <<"b">>)} |-> 1]
                      ELSE IF n = <<"c">> THEN [c \in {FullName(T, <<"d">>)} |-> 1]
                      ELSE EmptyMap
    IN  [m \in {FullName(T, n) : n \in {<<"a">>, <<"b">>, <<"c">>, <<"d">>}} |->
            methodCallInfo(T, lastPart(m), callsOf(lastPart(m)))]

(***************************************************************************)
(* The run from the method facts of a package's structs to its findings:    *)
(* every struct gets the result of AnalyzeMethodClustering as its           *)
(* MethodClusters, then PerformDiagnostics runs on the package.  The        *)
(* structs have no fields: each method is a component of its own for LCOM4  *)
(* and there is no field-clustering result.                                 *)
(***************************************************************************)
StructResultOf(facts, mc) ==
    [StructName |-> facts.StructName, FilePath |-> <<"a", ".go">>,
     LCOM4Score |-> Cardinality(DOMAIN facts.methods),
     MethodClusters |-> mc, FieldMatrix |-> Nil]

\* one struct with at most MaxMethods of the pool's methods, each calling at
\* most MaxCallees names, or a chain of at most MaxChain private methods with
\* calls among the first MaxLinks + 1 of them, alone or next to the struct with
\* two islands
InitCluster ==
    /\ pc = "analyzeStructs"
    /\ \/ \E M \in {M \in SUBSET PoolNames : Cardinality(M) <= MaxMethods} :
            \E cs \in [M -> {C \in SUBSET PoolNames : Cardinality(C) <= MaxCallees}] :
                structFacts = <<[StructName |-> <<"S">>, methods |-> GeneralFacts(M, cs)]>>
       \/ \E n \in 1..MaxChain : \E links \in SUBSET (1..Min(n - 1, MaxLinks)) :
            \/ structFacts = <<[StructName |-> <<"S">>, methods |-> ChainFacts(n, links)]>>
            \/ structFacts = <<[StructName |-> <<"S">>, methods |-> ChainFacts(n, links)],
                                [StructName |-> <<"T">>, methods |-> TwoIslands]>>
    /\ DiagIdle /\ LcomIdle /\ DepsIdle /\ FuncIdle /\ FieldIdle /\ ParseIdle /\ UfIdle

AnalyzeStructs ==
    /\ pc = "analyzeStructs"
    /\ \E mcs \in SeqProduct([i \in 1..Len(structFacts) |->
                                   AnalyzeMethodClustering(structFacts[i].methods)]) :
           packages' = <<PkgOf(1, <<"p">>, 0, 0,
                                [i \in 1..Len(structFacts) |-> StructResultOf(structFacts[i], mcs[i])],
                                <<>>)>>
    /\ pc' = "performDiagnostics"
    /\ UNCHANGED <<diagnostics, structFacts, lcomVars, depsVars, funcVars, fieldVars, parseVars, ufVars>>

PerformDiagnosticsStep ==
    /\ pc = "performDiagnostics"
    /\ \E d \in PerformDiagnostics(packages) : diagnostics' = d
    /\ pc' = "diagnosed"
    /\ UNCHANGED <<packages, structFacts, lcomVars, depsVars, funcVars, fieldVars, parseVars, ufVars>>

NextCluster == AnalyzeStructs \/ PerformDiagnosticsStep

SpecCluster == InitCluster /\ [][NextCluster]_vars

(***************************************************************************)
(* Claims about the diagnostics engine.                                     *)
(***************************************************************************)
\* the positions of the findings of one rule about one struct
FindingsAbout(type, pkg, s) ==
    {j \in DOMAIN diagnostics :
        /\ diagnostics[j].Type = type
        /\ diagnostics[j].RelatedPath = <<"#struct-">> \o pkg.Path \o Dash \o s.StructName}

FindingsOfType(type) == {j \in DOMAIN diagnostics : diagnostics[j].Type = type}

IsGodObject(pkg, s) == s.LCOM4Score >= 5 /\ pkg.Afferent >= 10

\* C1: once detectGodObjects has run, every struct with LCOM4 >= 5 in a package
\* with afferent coupling >= 10 has exactly one God Object finding, Critical,
\* whose evidence carries that score and that coupling; no other struct has
\* one, and there is no God Object finding besides these.
C1_GodObjectExactlyOnce ==
    pc # "detectGodObjects" =>
        /\ \A k \in DOMAIN packages : \A i \in DOMAIN packages[k].Structs :
             LET pkg == packages[k]
                 s == pkg.Structs[i]
                 found == FindingsAbout("God Object", pkg, s)
             IN  IF IsGodObject(pkg, s)
                 THEN /\ Cardinality(found) = 1
                      /\ \A j \in found :
                           /\ diagnostics[j].Severity = "Critical"
                           /\ diagnostics[j].Evidence.lcom4_score = s.LCOM4Score
                           /\ diagnostics[j].Evidence.afferent = pkg.Afferent
                 ELSE found = {}
        /\ Cardinality(FindingsOfType("God Object")) =
             Cardinality({<<k, i>> \in (DOMAIN packages) \X (1..MaxStructs) :
                            /\ i \in DOMAIN packages[k].Structs
                            /\ IsGodObject(packages[k], packages[k].Structs[i])})

\* a run that reported the struct of the specification's example (LCOM4 = 6,
\* afferent = 12) next to a struct of the same package it did not report
C1_Witness ==
    /\ pc = "diagnosed"
    /\ \E k \in DOMAIN packages :
         /\ packages[k].Afferent = 12
         /\ \E i, i2 \in DOMAIN packages[k].Structs :
              /\ packages[k].Structs[i].LCOM4Score = 6
              /\ FindingsAbout("God Object", packages[k], packages[k].Structs[i]) # {}
              /\ packages[k].Structs[i2].LCOM4Score = 4
              /\ FindingsAbout("God Object", packages[k], packages[k].Structs[i2]) = {}

\* the positions of the findings of any rule about one struct
StructFindings(pkg, s) ==
    {j \in DOMAIN diagnostics :
        diagnostics[j].RelatedPath = <<"#struct-">> \o pkg.Path \o Dash \o s.StructName}

FieldClustersType == "Split Responsibility (Field Clusters)"

\* C14: a struct without methods (score 0, no method-clustering result, no
\* field-clustering result) is the subject of no finding, whatever the
\* coupling of its package and the complexity of the package's functions; a
\* struct without a method-clustering result has no Method Islands finding and
\* a struct without a field-clustering result has no Field Clusters finding.
C14_NoResultNoFinding ==
    \A k \in DOMAIN packages : \A i \in DOMAIN packages[k].Structs :
        LET pkg == packages[k]
            s == pkg.Structs[i]
        IN  /\ (s.LCOM4Score = 0 /\ s.MethodClusters = Nil /\ s.FieldMatrix = Nil) =>
                  StructFindings(pkg, s) = {}
            /\ s.MethodClusters = Nil =>
                  FindingsAbout("Split Responsibility (Method Islands)", pkg, s) = {}
            /\ s.FieldMatrix = Nil => FindingsAbout(FieldClustersType, pkg, s) = {}

\* a struct of score 0 in a package with afferent coupling 12 next to a
\* function of complexity 15 named as its method: the function is reported,
\* the struct is not
C14_Witness ==
    /\ pc = "diagnosed"
    /\ packages[1].Afferent = 12
    /\ Len(packages[1].Structs) >= 1
    /\ packages[1].Structs[1] = StructOf(1, 0, Nil, Nil)
    /\ \E i \in DOMAIN packages[1].Functions :
         packages[1].Functions[i] = FuncOf(<<"S", ".", "m">>, 15)
    /\ FindingsOfType("Overly Complex Function") # {}
    /\ StructFindings(packages[1], packages[1].Structs[1]) = {}

\* C17: when PerformDiagnostics is done, a struct whose field-clustering
\* result exists with estimate >= 2 has exactly one Field Clusters finding,
\* Warning when the estimate is 2 and Critical when it is >= 3; a struct with
\* no field-clustering result or with estimate 1 has none.
C17_FieldClustersFinding ==
    pc = "diagnosed" =>
        \A k \in DOMAIN packages : \A i \in DOMAIN packages[k].Structs :
            LET pkg == packages[k]
                s == pkg.Structs[i]
                found == FindingsAbout(FieldClustersType, pkg, s)
            IN  IF s.FieldMatrix # Nil /\ s.FieldMatrix.EstimatedClusters >= 2
                THEN /\ Cardinality(found) = 1
                     /\ \A j \in found :
                          diagnostics[j].Severity =
                              IF s.FieldMatrix.EstimatedClusters = 2 THEN "Warning"
                              ELSE "Critical"
                ELSE found = {}

\* a package with a struct of estimate 2 reported as Warning and a struct of
\* estimate 3 reported as Critical
C17_Witness ==
    /\ pc = "diagnosed"
    /\ \E k \in DOMAIN packages : \E i, i2 \in DOMAIN packages[k].Structs :
         /\ packages[k].Structs[i].FieldMatrix = FmOf(2)
         /\ \E j \in FindingsAbout(FieldClustersType, packages[k], packages[k].Structs[i]) :
              diagnostics[j].Severity = "Warning"
         /\ packages[k].Structs[i2].FieldMatrix = FmOf(3)
         /\ \E j \in FindingsAbout(FieldClustersType, packages[k], packages[k].Structs[i2]) :
              diagnostics[j].Severity = "Critical"

\* some function of the package named <StructName>.<something> has
\* complexity >= 10
HasComplexMethod(pkg, s) ==
    \E i \in DOMAIN pkg.Functions :
        LET funcName == pkg.Functions[i].FuncName
            structPrefix == s.StructName \o Dot
        IN  /\ Len(funcName) > Len(structPrefix)
            /\ SubSeq(funcName, 1, Len(structPrefix)) = structPrefix
            /\ pkg.Functions[i].Complexity >= 10

\* C18: when PerformDiagnostics is done, a struct with LCOM4 >= 3 in a package
\* one of whose functions is named <StructName>.<method> and has complexity
\* >= 10 has exactly one Ambiguous Struct finding, a Warning; any other struct
\* has none, so the methods of another struct never count.
C18_AmbiguousStructFinding ==
    pc = "diagnosed" =>
        \A k \in DOMAIN packages : \A i \in DOMAIN packages[k].Structs :
            LET pkg == packages[k]
                s == pkg.Structs[i]
                found == FindingsAbout("Ambiguous Struct", pkg, s)
            IN  IF s.LCOM4Score >= 3 /\ HasComplexMethod(pkg, s)
                THEN /\ Cardinality(found) = 1
                     /\ \A j \in found : diagnostics[j].Severity = "Warning"
                ELSE found = {}

\* the position of the findings of one rule about one package
PackageFindings(type, pkg) ==
    {j \in DOMAIN diagnostics :
        /\ diagnostics[j].Type = type
        /\ diagnostics[j].RelatedPath = <<"#package-">> \o pkg.Path}

IsUnstableFoundation(pkg) ==
    pkg.Afferent >= 10 /\ 10 * pkg.Instability.num >= 7 * pkg.Instability.den

\* C19: once detectUnstableFoundations has run, a package with afferent
\* coupling >= 10 and instability >= 0.7 has exactly one Unstable Foundation
\* finding, Critical; no other package has one and there is no such finding
\* besides these.
C19_UnstableFoundationFinding ==
    pc \notin {"detectGodObjects", "detectUnstableFoundations"} =>
        /\ \A k \in DOMAIN packages :
             LET found == PackageFindings("Unstable Foundation", packages[k])
             IN  IF IsUnstableFoundation(packages[k])
                 THEN /\ Cardinality(found) = 1
                      /\ \A j \in found : diagnostics[j].Severity = "Critical"
                 ELSE found = {}
        /\ Cardinality(FindingsOfType("Unstable Foundation")) =
             Cardinality({k \in DOMAIN packages : IsUnstableFoundation(packages[k])})

\* a reported package with instability exactly 0.7 next to a package that is
\* not reported
C19_Witness ==
    /\ pc = "diagnosed"
    /\ \E k, k2 \in DOMAIN packages :
         /\ packages[k].Afferent = 12 /\ packages[k].Efferent = 28
         /\ PackageFindings("Unstable Foundation", packages[k]) # {}
         /\ PackageFindings("Unstable Foundation", packages[k2]) = {}

\* the positions of the Overly Complex Function findings about the functions
\* named name in pkg that carry complexity cx as evidence
ComplexFindings(pkg, name, cx) ==
    {j \in DOMAIN diagnostics :
        /\ diagnostics[j].Type = "Overly Complex Function"
        /\ diagnostics[j].RelatedPath = <<"#function-">> \o pkg.Path \o Dash \o name
        /\ diagnostics[j].Evidence.complexity = cx}

\* C20: once detectComplexFunctions has run, there are as many Overly Complex
\* Function findings carrying a function's name and complexity as function
\* results of that name and complexity when the complexity is >= 15, and none
\* when it is <= 14; every such finding is a Warning and there are no others.
C20_ComplexFunctionFinding ==
    pc \notin {"detectGodObjects", "detectUnstableFoundations", "detectComplexFunctions"} =>
        /\ \A k \in DOMAIN packages : \A i \in DOMAIN packages[k].Functions :
             LET pkg == packages[k]
                 f == pkg.Functions[i]
                 same == {i2 \in DOMAIN pkg.Functions :
                             /\ pkg.Functions[i2].FuncName = f.FuncName
                             /\ pkg.Functions[i2].Complexity = f.Complexity}
                 found == ComplexFindings(pkg, f.FuncName, f.Complexity)
             IN  IF f.Complexity >= 15
                 THEN /\ Cardinality(found) = Cardinality(same)
                      /\ \A j \in found : diagnostics[j].Severity = "Warning"
                 ELSE found = {}
        /\ Cardinality(FindingsOfType("Overly Complex Function")) =
             Cardinality(UNION {{<<k, i>> : i \in {i \in DOMAIN packages[k].Functions :
                                                    packages[k].Functions[i].Complexity >= 15}} :
                                k \in DOMAIN packages})

\* a function of complexity 15 reported next to one of complexity 14 that is
\* not
C20_Witness ==
    /\ pc = "diagnosed"
    /\ \E k \in DOMAIN packages : \E i, i2 \in DOMAIN packages[k].Functions :
         /\ packages[k].Functions[i].Complexity = 15
         /\ ComplexFindings(packages[k], packages[k].Functions[i].FuncName, 15) # {}
         /\ packages[k].Functions[i2].Complexity = 14
         /\ packages[k].Functions[i2].FuncName # packages[k].Functions[i].FuncName
         /\ ComplexFindings(packages[k], packages[k].Functions[i2].FuncName, 14) = {}

\* the rules in the order of the table
RuleOrder ==
    <<"God Object", "Unstable Foundation", "Overly Complex Function", "Ambiguous Struct",
      "Split Responsibility (Method Islands)", FieldClustersType>>

RuleRank(type) == CHOOSE r \in DOMAIN RuleOrder : RuleOrder[r] = type

PairsOf(S) == UNION {{<<k, i>> : i \in S[k]} : k \in DOMAIN S}

\* the subjects matching each rule's condition, summed over the rules
MatchingSubjects ==
    LET structsWhere(P(_, _)) ==
            Cardinality(PairsOf([k \in DOMAIN packages |->
                {i \in DOMAIN packages[k].Structs : P(packages[k], packages[k].Structs[i])}]))
        god(pkg, s) == IsGodObject(pkg, s)
        ambiguous(pkg, s) == s.LCOM4Score >= 3 /\ HasComplexMethod(pkg, s)
        islands(pkg, s) == s.MethodClusters # Nil /\ s.MethodClusters.ClusterCount >= 2
        clusters(pkg, s) == s.FieldMatrix # Nil /\ s.FieldMatrix.EstimatedClusters >= 2
    IN  structsWhere(god)
        + Cardinality({k \in DOMAIN packages : IsUnstableFoundation(packages[k])})
        + Cardinality(PairsOf([k \in DOMAIN packages |->
              {i \in DOMAIN packages[k].Functions : packages[k].Functions[i].Complexity >= 15}]))
        + structsWhere(ambiguous) + structsWhere(islands) + structsWhere(clusters)

\* C21: in the list PerformDiagnostics returns the findings are grouped by
\* rule in the order of the table, the length of the list is the number of
\* matching subjects summed over the rules, and every severity is Critical or
\* Warning.
C21_FindingsGroupedInRuleOrder ==
    pc = "diagnosed" =>
        /\ \A j, j2 \in DOMAIN diagnostics :
             j < j2 => RuleRank(diagnostics[j].Type) <= RuleRank(diagnostics[j2].Type)
        /\ Len(diagnostics) = MatchingSubjects
        /\ \A j \in DOMAIN diagnostics : diagnostics[j].Severity \in {"Critical", "Warning"}

\* C23: the finding list of a run is the finding list of every run on the
\* same package results: the same length and at each position the same type,
\* target name, severity, message and evidence, the order of the items of
\* complex_methods included.
C23_FindingsIdenticalAcrossRuns ==
    pc = "diagnosed" => \A again \in PerformDiagnostics(packages) : again = diagnostics

(***************************************************************************)
(* Claims about method clustering, under SpecCluster.                       *)
(***************************************************************************)
\* the graph of the specification, computed without the union-find: its nodes
\* are the private non-utility methods, a and b are linked when one of them
\* calls the other at least once
IslandNodes(methods) ==
    {m \in DOMAIN methods : methods[m].isPrivate /\ ~methods[m].isUtility}

Linked(methods, a, b) ==
    \/ b \in DOMAIN methods[a].calls /\ methods[a].calls[b] >= 1
    \/ a \in DOMAIN methods[b].calls /\ methods[b].calls[a] >= 1

RECURSIVE Grow(_, _)
Grow(methods, reached) ==
    LET more == {b \in IslandNodes(methods) \ reached :
                    \E a \in reached : Linked(methods, a, b)}
    IN  IF more = {} THEN reached ELSE Grow(methods, reached \cup more)

Islands(methods) == {Grow(methods, {m}) : m \in IslandNodes(methods)}

\* the clustering result stored for struct i once the structs are analysed
ResultOf(i) == packages[1].Structs[i].MethodClusters

Analysed == pc # "analyzeStructs"

TwoTrios == ChainFacts(6, {1, 2, 4, 5})

\* C7: every reported cluster is exactly one connected component of the graph
\* of the private non-utility methods linked by calls, so it holds no utility
\* method; distinct clusters are disjoint; two call-disconnected trios give
\* exactly 2 clusters of size 3.
C7_ClustersAreComponents ==
    Analysed =>
        \A i \in DOMAIN structFacts :
            LET methods == structFacts[i].methods
                mc == ResultOf(i)
            IN  ~mc.isNil =>
                  /\ \A c \in DOMAIN mc.Clusters :
                        /\ Range(mc.Clusters[c].Methods) \in Islands(methods)
                        /\ Len(mc.Clusters[c].Methods) = Cardinality(Range(mc.Clusters[c].Methods))
                        /\ mc.Clusters[c].Size = Len(mc.Clusters[c].Methods)
                  /\ \A c, d \in DOMAIN mc.Clusters :
                        c # d => Range(mc.Clusters[c].Methods) \cap Range(mc.Clusters[d].Methods) = {}
                  /\ methods = TwoTrios =>
                        /\ Len(mc.Clusters) = 2
                        /\ mc.Clusters[1].Size = 3 /\ mc.Clusters[2].Size = 3

\* the two trios were analysed and came out as two clusters
C7_Witness ==
    /\ Analysed
    /\ structFacts[1].methods = TwoTrios
    /\ ResultOf(1).ClusterCount = 2
    /\ ResultOf(1).Clusters[1].Size = 3
    /\ ResultOf(1).HasMultipleIslands

\* the threshold of the specification: max(2, round(0.2 * T)); 0.2 * T is
\* never half-way between two integers
SpecMinSize(T) == Max(2, (2 * T + 5) \div 10)

\* C8: with T private non-utility methods, a component is dropped exactly
\* when its size is below max(2, round(0.2 * T)) and the struct has more than
\* one component; a single component is reported whatever its size.
C8_DropsBelowRatioThreshold ==
    Analysed =>
        \A i \in DOMAIN structFacts :
            LET methods == structFacts[i].methods
                mc == ResultOf(i)
                T == Cardinality(IslandNodes(methods))
                dropped(c) == Cardinality(c) < SpecMinSize(T) /\ Cardinality(Islands(methods)) > 1
            IN  ~mc.isNil =>
                  {Range(mc.Clusters[c].Methods) : c \in DOMAIN mc.Clusters}
                      = {c \in Islands(methods) : ~dropped(c)}

IslandsType == "Split Responsibility (Method Islands)"

\* C9: HasMultipleIslands is true exactly when at least 2 clusters survive
\* (ClusterCount >= 2); the diagnostics hold exactly one Method Islands
\* finding, a Warning, for each struct whose result has the flag, and none for
\* a struct without a result or with fewer than 2 clusters.
C9_IslandsFlagAndFinding ==
    /\ Analysed =>
          \A i \in DOMAIN structFacts :
              ~ResultOf(i).isNil =>
                  /\ ResultOf(i).ClusterCount = Len(ResultOf(i).Clusters)
                  /\ ResultOf(i).HasMultipleIslands <=> ResultOf(i).ClusterCount >= 2
    /\ pc = "diagnosed" =>
          /\ \A i \in DOMAIN structFacts :
                LET found == FindingsAbout(IslandsType, packages[1], packages[1].Structs[i])
                IN  IF ~ResultOf(i).isNil /\ Len(ResultOf(i).Clusters) >= 2
                    THEN /\ Cardinality(found) = 1
                         /\ \A j \in found : diagnostics[j].Severity = "Warning"
                    ELSE found = {}
          /\ Cardinality(FindingsOfType(IslandsType)) =
                Cardinality({i \in DOMAIN structFacts :
                               ~ResultOf(i).isNil /\ Len(ResultOf(i).Clusters) >= 2})

\* a diagnosed package with a struct of one cluster, not reported, next to a
\* struct of two clusters, reported
C9_Witness ==
    /\ pc = "diagnosed"
    /\ Len(structFacts) = 2
    /\ ResultOf(1).ClusterCount = 1 /\ ~ResultOf(1).HasMultipleIslands
    /\ FindingsAbout(IslandsType, packages[1], packages[1].Structs[1]) = {}
    /\ ResultOf(2).ClusterCount = 2 /\ ResultOf(2).HasMultipleIslands
    /\ FindingsAbout(IslandsType, packages[1], packages[1].Structs[2]) # {}

\* the sum of the Size fields of a cluster list
ClusterSizeSum(clusters) ==
    LET F[i \in 0..Len(clusters)] == IF i = 0 THEN 0 ELSE F[i - 1] + clusters[i].Size
    IN  F[Len(clusters)]

\* C29: the clusters of a result come in non-increasing Size, carry the IDs
\* 1..N in list order, have Size equal to the number of their Methods;
\* ClusterCount is the length of the list and the sizes sum to at most
\* TotalPrivateMethods.
C29_ClusterListWellFormed ==
    Analysed =>
        \A i \in DOMAIN structFacts :
            LET mc == ResultOf(i)
            IN  ~mc.isNil =>
                  /\ \A c \in 1..(Len(mc.Clusters) - 1) :
                        mc.Clusters[c].Size >= mc.Clusters[c + 1].Size
                  /\ \A c \in DOMAIN mc.Clusters :
                        /\ mc.Clusters[c].ID = c
                        /\ mc.Clusters[c].Size = Len(mc.Clusters[c].Methods)
                  /\ mc.ClusterCount = Len(mc.Clusters)
                  /\ ClusterSizeSum(mc.Clusters) <= mc.TotalPrivateMethods

\* a struct of six private methods with a cluster of three, one of two and a
\* method on its own, which is filtered out
C29_Witness ==
    /\ Analysed
    /\ structFacts[1].methods = ChainFacts(6, {1, 2, 4})
    /\ ResultOf(1).TotalPrivateMethods = 6
    /\ ResultOf(1).ClusterCount = 2
    /\ ResultOf(1).Clusters[1].Size = 3 /\ ResultOf(1).Clusters[1].ID = 1
    /\ ResultOf(1).Clusters[2].Size = 2 /\ ResultOf(1).Clusters[2].ID = 2

(***************************************************************************)
(* Cohesion (analyzer/lcom4.go): calculateStructLCOM4 on the fields that    *)
(* extractFields and the methods that extractMethods return.  A method is   *)
(* [name, usedFields]; usedFields is a Go map, ranged over in any order.    *)
(***************************************************************************)
unionOrders_FirstOnly(methods) ==
    {Flatten(po) :
        po \in SeqProduct([i \in 1..Len(methods) |->
                  {[j \in 1..Min(1, Len(o)) |-> <<methods[i].name, o[j]>>] :
                      o \in Orderings(methods[i].usedFields)}])}

\* the orders in which the third loop of calculateStructLCOM4 can call union:
\* the methods in slice order, the used fields of each in any order
unionOrders(methods) ==
    {Flatten(po) :
        po \in SeqProduct([i \in 1..Len(methods) |->
                  {[j \in 1..Len(o) |-> <<methods[i].name, o[j]>>] :
                      o \in Orderings(methods[i].usedFields)}])}

calculateStructLCOM4_NoEarlyReturn(structName, fields, methods, fileName) ==
    LET added == addAll(addAll(newUnionFind, [i \in 1..Len(methods) |-> methods[i].name]),
                        fields)
    IN  UNION {{[StructName |-> structName, FilePath |-> fileName,
                 LCOM4Score |-> Len(components), ComponentDetails |-> components] :
                components \in getComponents(unionAll(added, pairs))} :
               pairs \in unionOrders(methods)}

\* the StructResults calculateStructLCOM4 can return
calculateStructLCOM4(structName, fields, methods, fileName) ==
    IF Len(methods) = 0
    THEN {[StructName |-> structName, FilePath |-> fileName,
           LCOM4Score |-> 0, ComponentDetails |-> <<>>]}
    ELSE LET added == addAll(addAll(newUnionFind, [i \in 1..Len(methods) |-> methods[i].name]),
                             fields)
         IN  UNION {{[StructName |-> structName, FilePath |-> fileName,
                      LCOM4Score |-> Len(components), ComponentDetails |-> components] :
                     components \in getComponents(unionAll(added, pairs))} :
                    pairs \in unionOrders(methods)}

\* the struct S of file a.go: the fields f, g, ... in declaration order and
\* the methods a, b, ... in source order, each using any of the fields.  Field
\* and method names of one struct are distinct by the rules of the language.
LcomFieldName(i) == <<Alphabet[i + 12]>>

LcomInputs ==
    UNION {UNION {{[fields |-> [i \in 1..k |-> LcomFieldName(i)],
                    methods |-> [i \in 1..n |-> [name |-> ChainName(i), usedFields |-> used[i]]]] :
                   used \in [1..n -> SUBSET {LcomFieldName(i) : i \in 1..k}]} :
                  n \in 0..MaxLcomMethods} :
           k \in 0..MaxFields}

InitLcom ==
    /\ pc = "calculateStructLCOM4"
    /\ lcomInput \in LcomInputs
    /\ lcomResult = <<>>
    /\ DiagIdle /\ ClusterIdle /\ DepsIdle /\ FuncIdle /\ FieldIdle /\ ParseIdle /\ UfIdle

CalculateStructLCOM4 ==
    /\ pc = "calculateStructLCOM4"
    /\ lcomResult' \in calculateStructLCOM4(<<"S">>, lcomInput.fields, lcomInput.methods,
                                            <<"a", ".go">>)
    /\ pc' = "lcomDone"
    /\ UNCHANGED <<lcomInput, diagVars, clusterVars, depsVars, funcVars, fieldVars, parseVars, ufVars>>

NextLcom == CalculateStructLCOM4

\* the same run on the structs of at most MaxOrderNodes methods and fields
OrderInputs(n, k) ==
    {[fields |-> [i \in 1..k |-> LcomFieldName(i)],
      methods |-> [i \in 1..n |-> [name |-> ChainName(i), usedFields |-> used[i]]]] :
     used \in [1..n -> SUBSET {LcomFieldName(i) : i \in 1..k}]}

InitLcomOrder ==
    /\ pc = "calculateStructLCOM4"
    /\ \E n \in 0..MaxOrderNodes : \E k \in 0..(MaxOrderNodes - n) :
           lcomInput \in OrderInputs(n, k)
    /\ lcomResult = <<>>
    /\ DiagIdle /\ ClusterIdle /\ DepsIdle /\ FuncIdle /\ FieldIdle /\ ParseIdle /\ UfIdle

SpecLcomOrder == InitLcomOrder /\ [][NextLcom]_vars

SpecLcom == InitLcom /\ [][NextLcom]_vars

(***************************************************************************)
(* Claims about cohesion, under SpecLcom.                                   *)
(***************************************************************************)
\* the bipartite graph of the specification, computed without the union-find
LcomNodes == {lcomInput.methods[i].name : i \in DOMAIN lcomInput.methods} \cup Range(lcomInput.fields)

Uses(a, b) ==
    \E i \in DOMAIN lcomInput.methods :
        /\ lcomInput.methods[i].name = a
        /\ b \in lcomInput.methods[i].usedFields

RECURSIVE LcomGrow(_)
LcomGrow(reached) ==
    LET more == {b \in LcomNodes \ reached : \E a \in reached : Uses(a, b) \/ Uses(b, a)}
    IN  IF more = {} THEN reached ELSE LcomGrow(reached \cup more)

LcomComponents == {LcomGrow({n}) : n \in LcomNodes}

\* C2: for a struct with at least one method, LCOM4Score is the number of
\* connected components of the graph of its methods and fields with an edge
\* from each method to each field it uses, and ComponentDetails holds one list
\* per component with exactly the names of that component.
C2_ScoreIsComponentCount ==
    (pc = "lcomDone" /\ Len(lcomInput.methods) >= 1) =>
        LET details == lcomResult.ComponentDetails
        IN  /\ lcomResult.LCOM4Score = Cardinality(LcomComponents)
            /\ Len(details) = lcomResult.LCOM4Score
            /\ {Range(details[i]) : i \in DOMAIN details} = LcomComponents
            /\ \A i \in DOMAIN details : Len(details[i]) = Cardinality(Range(details[i]))
            /\ \A i, j \in DOMAIN details : i # j => Range(details[i]) # Range(details[j])

\* two methods sharing the first field, the second field used by neither:
\* one component of three names and one of a single name
C2_Witness ==
    /\ pc = "lcomDone"
    /\ Len(lcomInput.methods) = 2 /\ Len(lcomInput.fields) = 2
    /\ \A i \in 1..2 : lcomInput.methods[i].usedFields = {LcomFieldName(1)}
    /\ lcomResult.LCOM4Score = 2
    /\ \E i \in DOMAIN lcomResult.ComponentDetails : Len(lcomResult.ComponentDetails[i]) = 3

\* every order of the elements of a list
PermSeqs(list) ==
    {[i \in 1..Len(list) |-> list[p[i]]] : p \in Perms(1..Len(list))}

\* C22: the score and the set of member sets of the result are those of every
\* run on the same facts, whatever the order in which the methods and the
\* fields are added, the order in which the pairs of a method and a field it
\* uses are unioned and the order in which getComponents ranges over its maps.
C22_LcomOrderIndependent ==
    (pc = "lcomDone" /\ Len(lcomInput.methods) >= 1) =>
        \A methods \in PermSeqs(lcomInput.methods) : \A fields \in PermSeqs(lcomInput.fields) :
            \A pairs \in unionOrders(methods) :
                LET added == addAll(addAll(newUnionFind,
                                 [i \in 1..Len(methods) |-> methods[i].name]), fields)
                    sets == componentSets(unionAll(added, pairs))
                    details == lcomResult.ComponentDetails
                IN  /\ lcomResult.LCOM4Score = Cardinality(sets)
                    /\ {Range(details[i]) : i \in DOMAIN details} = sets

\* a struct of two methods sharing both fields, where the unions come in
\* several orders, next to a result that another run lists in another order
C22_Witness ==
    /\ pc = "lcomDone"
    /\ Len(lcomInput.methods) = 2 /\ Len(lcomInput.fields) = 2
    /\ \A i \in 1..2 : Cardinality(lcomInput.methods[i].usedFields) = 2
    /\ lcomResult.LCOM4Score = 1
    /\ lcomResult.ComponentDetails[1][1] # ChainName(1)

\* C12: a struct without methods, whatever its number of fields, gets LCOM4
\* score 0 and an empty component list.
C12_NoMethodsScoreZero ==
    (pc = "lcomDone" /\ Len(lcomInput.methods) = 0) =>
        /\ lcomResult.LCOM4Score = 0
        /\ lcomResult.ComponentDetails = <<>>

\* a struct with two fields and no method scored 0
C12_Witness ==
    /\ pc = "lcomDone"
    /\ Len(lcomInput.methods) = 0 /\ Len(lcomInput.fields) = 2
    /\ lcomResult.LCOM4Score = 0 /\ lcomResult.ComponentDetails = <<>>

\* no field is used by two methods
DisjointUse ==
    \A i, j \in DOMAIN lcomInput.methods :
        i # j => lcomInput.methods[i].usedFields \cap lcomInput.methods[j].usedFields = {}

\* every method uses every field
FullUse ==
    \A i \in DOMAIN lcomInput.methods :
        lcomInput.methods[i].usedFields = Range(lcomInput.fields)

\* C13: a struct whose methods use pairwise disjoint sets of fields and that
\* has at least as many fields as methods scores exactly its number of
\* methods; a struct with a method and a field whose methods all use all the
\* fields scores exactly 1.
C13_DisjointScoresMethodCount ==
    (pc = "lcomDone" /\ Len(lcomInput.methods) >= 1) =>
        /\ (DisjointUse /\ Len(lcomInput.fields) >= Len(lcomInput.methods)) =>
               lcomResult.LCOM4Score = Len(lcomInput.methods)
        /\ (FullUse /\ Len(lcomInput.fields) >= 1) => lcomResult.LCOM4Score = 1

\* every field is used by some method
NoUnusedField ==
    Range(lcomInput.fields) =
        UNION {lcomInput.methods[i].usedFields : i \in DOMAIN lcomInput.methods}

\* C13 as amended: a struct whose methods use pairwise disjoint sets of
\* fields, that has at least as many fields as methods and in which every
\* field is used by some method scores exactly its number of methods; a
\* struct with a method and a field whose methods all use all the fields
\* scores exactly 1.
C13_Amended ==
    (pc = "lcomDone" /\ Len(lcomInput.methods) >= 1) =>
        /\ (/\ DisjointUse
            /\ Len(lcomInput.fields) >= Len(lcomInput.methods)
            /\ NoUnusedField) =>
               lcomResult.LCOM4Score = Len(lcomInput.methods)
        /\ (FullUse /\ Len(lcomInput.fields) >= 1) => lcomResult.LCOM4Score = 1

\* two methods, each using a field of its own, scored 2
C13_Witness ==
    /\ pc = "lcomDone"
    /\ Len(lcomInput.methods) = 2 /\ Len(lcomInput.fields) = 2
    /\ lcomInput.methods[1].usedFields = {LcomFieldName(1)}
    /\ lcomInput.methods[2].usedFields = {LcomFieldName(2)}
    /\ lcomResult.LCOM4Score = 2

(***************************************************************************)
(* Package dependencies: buildDependencyGraph (analyzer.go) over the        *)
(* parsed packages, then CalculateCoupling and CalculateDependencyDepth     *)
(* (analyzer/coupling.go) as Analyze calls them.  parsed holds the project  *)
(* prefix and, per relative path of a parsed package, the set of import     *)
(* paths of its files.                                                      *)
(***************************************************************************)
Slash == <<"/">>

\* fullPath of buildDependencyGraph and CalculateDependencyDepth
fullPathOf(projectPrefix, pkgPath) ==
    IF pkgPath # EmptyString THEN projectPrefix \o Slash \o pkgPath ELSE projectPrefix

fullToRelPathOf(pkgPaths, projectPrefix) ==
    [full \in {fullPathOf(projectPrefix, p) : p \in pkgPaths} |->
        CHOOSE p \in pkgPaths : fullPathOf(projectPrefix, p) = full]

\* the graphs buildDependencyGraph can return.  ExtractImports turns the
\* import set of a package into a slice in map order; ImportedBy is appended
\* to while ranging over the map packages, in the order pkgOrder.
buildDependencyGraph(pkgs, projectPrefix) ==
    LET fullToRelPath == fullToRelPathOf(DOMAIN pkgs, projectPrefix)
        paths == SortStrings(DOMAIN pkgs)
        importedBy(p, pkgOrder, imports) ==
            LET importers == [i \in 1..Len(pkgOrder) |->
                    IF fullPathOf(projectPrefix, p) \in Range(imports[pkgOrder[i]])
                    THEN <<fullPathOf(projectPrefix, pkgOrder[i])>> ELSE <<>>]
            IN  Flatten(importers)
    IN  {[p \in DOMAIN pkgs |->
            [PkgPath |-> fullPathOf(projectPrefix, p),
             Imports |-> imports[p],
             ImportedBy |-> importedBy(p, pkgOrder, imports)]] :
         pkgOrder \in Orderings(DOMAIN pkgs),
         imports \in {[p \in DOMAIN pkgs |-> choice[CHOOSE i \in 1..Len(paths) : paths[i] = p]] :
                        choice \in SeqProduct([i \in 1..Len(paths) |-> Orderings(pkgs[paths[i]])])}}

\* the number of strings of a slice that have the prefix
countWithPrefix(list, projectPrefix) ==
    Cardinality({i \in DOMAIN list : HasPrefix(list[i], projectPrefix)})

CalculateCoupling(deps, projectPrefix) ==
    [pkgPath \in DOMAIN deps |->
        LET ca == countWithPrefix(deps[pkgPath].ImportedBy, projectPrefix)
            ce == countWithPrefix(deps[pkgPath].Imports, projectPrefix)
        IN  [Afferent |-> ca, Efferent |-> ce, Instability |-> InstabilityOf(ca, ce)]]

\* the closure dfs of CalculateDependencyDepth: st holds the maps depths,
\* visited and inProgress; the result is the state left behind and the value
\* returned
RECURSIVE dfs(_, _, _, _, _)
RECURSIVE dfsImports(_, _, _, _, _, _, _)
dfs_NoMemo(deps, projectPrefix, fullToRelPath, st, pkgPath) ==
    IF Get(st.inProgress, pkgPath, FALSE) THEN [st |-> st, depth |-> 0]
    ELSE LET entered == [st EXCEPT !.inProgress = Put(@, pkgPath, TRUE),
                                   !.bodyRuns = Append(@, pkgPath)]
             hasDep == pkgPath \in DOMAIN deps
             imports == IF hasDep THEN deps[pkgPath].Imports ELSE <<>>
             walked == dfsImports(deps, projectPrefix, fullToRelPath, entered, imports, 1, 0)
             depth == IF walked.maxDepth > 0 \/ (hasDep /\ Len(imports) > 0)
                      THEN walked.maxDepth + 1
                      ELSE 0
         IN  [st |-> [depths |-> Put(walked.st.depths, pkgPath, depth),
                      visited |-> Put(walked.st.visited, pkgPath, TRUE),
                      inProgress |-> Put(walked.st.inProgress, pkgPath, FALSE),
                      bodyRuns |-> walked.st.bodyRuns],
              depth |-> depth]

\* st holds the maps depths, visited and inProgress, and bodyRuns, the
\* packages for which the body of dfs ran past its two early returns, in order
dfs(deps, projectPrefix, fullToRelPath, st, pkgPath) ==
    IF Get(st.visited, pkgPath, FALSE) THEN [st |-> st, depth |-> Get(st.depths, pkgPath, 0)]
    ELSE IF Get(st.inProgress, pkgPath, FALSE) THEN [st |-> st, depth |-> 0]
    ELSE LET entered == [st EXCEPT !.inProgress = Put(@, pkgPath, TRUE),
                                   !.bodyRuns = Append(@, pkgPath)]
             hasDep == pkgPath \in DOMAIN deps
             imports == IF hasDep THEN deps[pkgPath].Imports ELSE <<>>
             walked == dfsImports(deps, projectPrefix, fullToRelPath, entered, imports, 1, 0)
             depth == IF walked.maxDepth > 0 \/ (hasDep /\ Len(imports) > 0)
                      THEN walked.maxDepth + 1
                      ELSE 0
         IN  [st |-> [depths |-> Put(walked.st.depths, pkgPath, depth),
                      visited |-> Put(walked.st.visited, pkgPath, TRUE),
                      inProgress |-> Put(walked.st.inProgress, pkgPath, FALSE),
                      bodyRuns |-> walked.st.bodyRuns],
              depth |-> depth]

\* the loop of dfs over dep.Imports from position i on
dfsImports(deps, projectPrefix, fullToRelPath, st, imports, i, maxDepth) ==
    IF i > Len(imports) THEN [st |-> st, maxDepth |-> maxDepth]
    ELSE IF HasPrefix(imports[i], projectPrefix) /\ imports[i] \in DOMAIN fullToRelPath
         THEN LET child == dfs(deps, projectPrefix, fullToRelPath, st, fullToRelPath[imports[i]])
              IN  dfsImports(deps, projectPrefix, fullToRelPath, child.st, imports, i + 1,
                             Max(maxDepth, child.depth))
         ELSE dfsImports(deps, projectPrefix, fullToRelPath, st, imports, i + 1, maxDepth)

\* CalculateDependencyDepth with its last loop taking the packages in the
\* order roots: the maps and bodyRuns when it returns
depthRun(deps, projectPrefix, roots) ==
    LET fullToRelPath == fullToRelPathOf(DOMAIN deps, projectPrefix)
        F[i \in 0..Len(roots)] ==
            IF i = 0
            THEN [depths |-> EmptyMap, visited |-> EmptyMap, inProgress |-> EmptyMap,
                  bodyRuns |-> <<>>]
            ELSE IF Get(F[i - 1].visited, roots[i], FALSE) THEN F[i - 1]
            ELSE dfs(deps, projectPrefix, fullToRelPath, F[i - 1], roots[i]).st
    IN  F[Len(roots)]

\* the maps CalculateDependencyDepth can return: its last loop ranges over
\* the map pkgDeps in any order
CalculateDependencyDepth(deps, projectPrefix) ==
    {depthRun(deps, projectPrefix, roots).depths : roots \in Orderings(DOMAIN deps)}

\* the project m: its root directory and the directories a, b, ... can each
\* hold a parsed package; a package imports packages of the project (parsed or
\* not), the standard library package fmt and the foreign module m2
ProjectPrefix == <<"m">>

DepPkgName(i) == IF i = 1 THEN EmptyString ELSE ChainName(i - 1)

DepDirs == {DepPkgName(i) : i \in 1..MaxDepPkgs}

ImportPool ==
    {fullPathOf(ProjectPrefix, p) : p \in DepDirs} \cup {<<"f", "m", "t">>, <<"m", "2">>}

\* the subsets of S with at most k elements
RECURSIVE KSubsets(_, _)
KSubsets(S, k) ==
    IF k = 0 THEN {{}}
    ELSE LET smaller == KSubsets(S, k - 1)
         IN  smaller \cup {T \cup {x} : T \in smaller, x \in S}

InitDeps ==
    /\ pc = "buildDependencyGraph"
    /\ \E analysed \in SUBSET DepDirs :
         \E declared \in KSubsets(analysed \X ImportPool, MaxEdges) :
            parsed = [projectPrefix |-> ProjectPrefix,
                      packages |-> [p \in analysed |->
                                      {e[2] : e \in {d \in declared : d[1] = p}}]]
    /\ pkgDeps = <<>> /\ coupling = <<>> /\ depths = <<>>
    /\ DiagIdle /\ ClusterIdle /\ LcomIdle /\ FuncIdle /\ FieldIdle /\ ParseIdle /\ UfIdle

BuildDependencyGraph ==
    /\ pc = "buildDependencyGraph"
    /\ pkgDeps' \in buildDependencyGraph(parsed.packages, parsed.projectPrefix)
    /\ pc' = "CalculateCoupling"
    /\ UNCHANGED <<parsed, coupling, depths, diagVars, clusterVars, lcomVars, funcVars, fieldVars, parseVars, ufVars>>

CalculateCouplingStep ==
    /\ pc = "CalculateCoupling"
    /\ coupling' = CalculateCoupling(pkgDeps, parsed.projectPrefix)
    /\ pc' = "CalculateDependencyDepth"
    /\ UNCHANGED <<parsed, pkgDeps, depths, diagVars, clusterVars, lcomVars, funcVars, fieldVars, parseVars, ufVars>>

CalculateDependencyDepthStep ==
    /\ pc = "CalculateDependencyDepth"
    /\ depths' \in CalculateDependencyDepth(pkgDeps, parsed.projectPrefix)
    /\ pc' = "depsDone"
    /\ UNCHANGED <<parsed, pkgDeps, coupling, diagVars, clusterVars, lcomVars, funcVars, fieldVars, parseVars, ufVars>>

NextDeps == BuildDependencyGraph \/ CalculateCouplingStep \/ CalculateDependencyDepthStep

SpecDeps == InitDeps /\ [][NextDeps]_vars

(***************************************************************************)
(* Claims about package dependencies, under SpecDeps.                       *)
(***************************************************************************)
Analysed_Pkgs == DOMAIN parsed.packages

\* the analysed packages that p imports: the edges of the analysed graph
AnalysedImports(p) ==
    {q \in Analysed_Pkgs : fullPathOf(parsed.projectPrefix, q) \in parsed.packages[p]}

RECURSIVE ReachFrom(_)
ReachFrom(reached) ==
    LET more == UNION {AnalysedImports(p) : p \in reached} \ reached
    IN  IF more = {} THEN reached ELSE ReachFrom(reached \cup more)

Acyclic == \A p \in Analysed_Pkgs : p \notin ReachFrom(AnalysedImports(p))

\* the number of import edges of the longest chain from p, in an acyclic graph
RECURSIVE LongestChain(_)
LongestChain(p) ==
    IF AnalysedImports(p) = {} THEN 0
    ELSE 1 + (CHOOSE n \in {LongestChain(q) : q \in AnalysedImports(p)} :
                \A k \in {LongestChain(q) : q \in AnalysedImports(p)} : n >= k)

\* C3: when the in-project import graph is acyclic, the depth of every
\* package is the number of import edges of its longest chain of in-project
\* imports (A imports B imports C gives A = 2, B = 1, C = 0).
C3_DepthIsLongestChain ==
    (pc = "depsDone" /\ Acyclic) =>
        \A p \in Analysed_Pkgs : depths[p] = LongestChain(p)

\* C28: on every import graph, cycles and self-imports included, every run of
\* CalculateDependencyDepth returns with a depth for every package and with
\* nothing left in progress, the body of dfs has run exactly once per package
\* (so dfs never recursed into a package on its stack), and a package whose
\* only import among the analysed packages is itself, an edge to the stack
\* that counts 0, has depth 1.
C28_DepthTerminatesOncePerPackage ==
    pc = "depsDone" =>
        /\ DOMAIN depths = DOMAIN pkgDeps
        /\ \A roots \in Orderings(DOMAIN pkgDeps) :
             LET st == depthRun(pkgDeps, parsed.projectPrefix, roots)
             IN  /\ DOMAIN st.depths = DOMAIN pkgDeps
                 /\ Len(st.bodyRuns) = Cardinality(DOMAIN pkgDeps)
                 /\ Range(st.bodyRuns) = DOMAIN pkgDeps
                 /\ \A p \in DOMAIN st.inProgress : ~st.inProgress[p]
        /\ \A p \in DOMAIN pkgDeps :
             LET fullToRelPath == fullToRelPathOf(DOMAIN pkgDeps, parsed.projectPrefix)
                 internal == {fullToRelPath[x] :
                                 x \in Range(pkgDeps[p].Imports) \cap DOMAIN fullToRelPath}
             IN  internal = {p} => depths[p] = 1

\* a run on two packages importing each other, the one entered first at
\* depth 2
C28_Witness ==
    /\ pc = "depsDone"
    /\ \E p, q \in DOMAIN pkgDeps :
         /\ p # q
         /\ fullPathOf(parsed.projectPrefix, q) \in Range(pkgDeps[p].Imports)
         /\ fullPathOf(parsed.projectPrefix, p) \in Range(pkgDeps[q].Imports)
         /\ depths[p] = 2 /\ depths[q] = 1

\* C24: the depths of a run are the depths of every run on the same packages,
\* whatever the order in which each package's imports are listed and visited
\* and the order in which the packages are taken as roots, import cycles
\* included.
C24_DepthOrderIndependent ==
    pc = "depsDone" =>
        \A graph \in buildDependencyGraph(parsed.packages, parsed.projectPrefix) :
            \A again \in CalculateDependencyDepth(graph, parsed.projectPrefix) :
                again = depths

\* C4: a package whose imports include no in-project package has depth 0.
\* The packages taken are those with no import that starts with the project
\* prefix, the narrowest reading of the claim.
C4_NoInProjectImportDepthZero ==
    pc = "depsDone" =>
        \A p \in Analysed_Pkgs :
            (\A imp \in parsed.packages[p] : ~HasPrefix(imp, parsed.projectPrefix)) =>
                depths[p] = 0

\* C5: afferent(P) is the number of analysed packages that import P and
\* efferent(P) the number of analysed packages P imports; no other import is
\* counted.
C5_CouplingCountsAnalysedEdges ==
    pc \in {"CalculateDependencyDepth", "depsDone"} =>
        \A p \in Analysed_Pkgs :
            /\ coupling[p].Afferent = Cardinality({q \in Analysed_Pkgs : p \in AnalysedImports(q)})
            /\ coupling[p].Efferent = Cardinality(AnalysedImports(p))

(***************************************************************************)
(* Function metrics (analyzer/complexity.go, analyzer/loc.go).  A function  *)
(* declaration is [Name, Recv, hasBody, body, Lbrace, Rbrace]: Recv is the  *)
(* receiver type name CalculateComplexity extracts (empty for a plain       *)
(* function), body the nodes ast.Inspect visits in the body, Lbrace and     *)
(* Rbrace the lines of the braces.  A node is [kind, List, Comm, Op, Fun]:  *)
(* List is len(CaseClause.List), Comm tells whether CommClause.Comm is not  *)
(* nil, Op is the operator of a BinaryExpr, Fun the callee of a CallExpr.   *)
(***************************************************************************)
NoExpr == [kind |-> "", XIsIdent |-> FALSE, X |-> EmptyString, Sel |-> EmptyString]

Node(kind) == [kind |-> kind, List |-> 0, Comm |-> FALSE, Op |-> "", Fun |-> NoExpr]

CaseClause(n) == [Node("CaseClause") EXCEPT !.List = n]
CommClause(hasComm) == [Node("CommClause") EXCEPT !.Comm = hasComm]
BinaryExpr(op) == [Node("BinaryExpr") EXCEPT !.Op = op]

\* name(...)
CallIdent(name) ==
    [Node("CallExpr") EXCEPT
        !.Fun = [kind |-> "Ident", XIsIdent |-> FALSE, X |-> EmptyString, Sel |-> name]]

\* x.sel(...), x an identifier or not
CallSelector(xIsIdent, x, sel) ==
    [Node("CallExpr") EXCEPT
        !.Fun = [kind |-> "SelectorExpr", XIsIdent |-> xIsIdent, X |-> x, Sel |-> sel]]

calculateFunctionComplexity_CountsDefault(funcDecl) ==
    IF ~funcDecl.hasBody THEN 1
    ELSE LET counted(node) ==
                 \/ node.kind \in {"IfStmt", "ForStmt", "RangeStmt", "SwitchStmt", "TypeSwitchStmt"}
                 \/ node.kind = "CaseClause"
                 \/ node.kind = "CommClause" /\ node.Comm
                 \/ node.kind = "BinaryExpr" /\ node.Op \in {"LAND", "LOR"}
             complexity[i \in 0..Len(funcDecl.body)] ==
                 IF i = 0 THEN 1
                 ELSE IF counted(funcDecl.body[i]) THEN complexity[i - 1] + 1
                 ELSE complexity[i - 1]
         IN  complexity[Len(funcDecl.body)]

calculateFunctionComplexity(funcDecl) ==
    IF ~funcDecl.hasBody THEN 1
    ELSE LET counted(node) ==
                 \/ node.kind \in {"IfStmt", "ForStmt", "RangeStmt", "SwitchStmt", "TypeSwitchStmt"}
                 \/ node.kind = "CaseClause" /\ node.List > 0
                 \/ node.kind = "CommClause" /\ node.Comm
                 \/ node.kind = "BinaryExpr" /\ node.Op \in {"LAND", "LOR"}
             complexity[i \in 0..Len(funcDecl.body)] ==
                 IF i = 0 THEN 1
                 ELSE IF counted(funcDecl.body[i]) THEN complexity[i - 1] + 1
                 ELSE complexity[i - 1]
         IN  complexity[Len(funcDecl.body)]

CalculateFunctionLoC(funcDecl) ==
    IF ~funcDecl.hasBody THEN 0
    ELSE LET lines == funcDecl.Rbrace - funcDecl.Lbrace
         IN  IF lines < 0 THEN 0 ELSE lines

\* funcName of CalculateComplexity, callerName of calculateAfferentCoupling
funcNameOf(funcDecl) ==
    IF funcDecl.Recv # EmptyString THEN funcDecl.Recv \o Dot \o funcDecl.Name ELSE funcDecl.Name

\* calledName of calculateAfferentCoupling for one call expression
calledNameOf(callExpr, localFunctions) ==
    IF callExpr.Fun.kind = "Ident" THEN callExpr.Fun.Sel
    ELSE IF /\ callExpr.Fun.kind = "SelectorExpr"
            /\ callExpr.Fun.XIsIdent
            /\ (callExpr.Fun.X \o Dot \o callExpr.Fun.Sel) \in localFunctions
         THEN callExpr.Fun.X \o Dot \o callExpr.Fun.Sel
    ELSE EmptyString

\* the call expressions of the package as <<declaration, node>> positions
callSites(decls) ==
    UNION {{<<d, j>> : j \in {j \in DOMAIN decls[d].body : decls[d].body[j].kind = "CallExpr"}} :
           d \in {d \in DOMAIN decls : decls[d].hasBody}}

\* Afferent of every result after calculateAfferentCoupling: funcMap maps a
\* name to the last result of that name, and every call expression whose
\* calledName is a local function increments that result
calculateAfferentCoupling(decls) ==
    LET localFunctions == {funcNameOf(decls[d]) : d \in DOMAIN decls}
        funcMap == [name \in localFunctions |->
                       CHOOSE d \in DOMAIN decls :
                           /\ funcNameOf(decls[d]) = name
                           /\ \A e \in DOMAIN decls : funcNameOf(decls[e]) = name => e <= d]
    IN  [i \in DOMAIN decls |->
            Cardinality({site \in callSites(decls) :
                LET calledName == calledNameOf(decls[site[1]].body[site[2]], localFunctions)
                IN  /\ calledName # EmptyString
                    /\ calledName \in localFunctions
                    /\ funcMap[calledName] = i})]

\* buildFileImportMap of a file that imports fmt
fileImports == [pkgName \in {<<"f", "m", "t">>} |-> <<"f", "m", "t">>]

\* the packages extractFunctionDependencies finds used, as a set
extractFunctionDependencies(funcDecl) ==
    IF ~funcDecl.hasBody THEN {}
    ELSE {fileImports[funcDecl.body[j].Fun.X] :
            j \in {j \in DOMAIN funcDecl.body :
                      /\ funcDecl.body[j].Fun.kind = "SelectorExpr"
                      /\ funcDecl.body[j].Fun.XIsIdent
                      /\ funcDecl.body[j].Fun.X \in DOMAIN fileImports}}

\* the results CalculateComplexity returns for the declarations of one file
CalculateComplexity(decls) ==
    LET afferent == calculateAfferentCoupling(decls)
    IN  [i \in DOMAIN decls |->
            LET efferent == Cardinality(extractFunctionDependencies(decls[i]))
            IN  [FuncName |-> funcNameOf(decls[i]),
                 FilePath |-> <<"a", ".go">>,
                 Complexity |-> calculateFunctionComplexity(decls[i]),
                 LoC |-> CalculateFunctionLoC(decls[i]),
                 Efferent |-> efferent,
                 Afferent |-> afferent[i],
                 Instability |-> InstabilityOf(afferent[i], efferent)]]

\* the declarations CalculateComplexity runs on
FuncDeclOf(name, recv, hasBody, body, lbrace, rbrace) ==
    [Name |-> name, Recv |-> recv, hasBody |-> hasBody, body |-> body,
     Lbrace |-> lbrace, Rbrace |-> rbrace]

\* a declaration without a body, as of a function implemented elsewhere
External(name) == FuncDeclOf(name, EmptyString, FALSE, <<>>, 0, 0)

\* a declaration whose body has one node per line after the opening brace
OnLines(name, recv, body) == FuncDeclOf(name, recv, TRUE, body, 1, 1 + Len(body))

NodePool ==
    {Node(k) : k \in {"IfStmt", "ForStmt", "RangeStmt", "SwitchStmt", "TypeSwitchStmt",
                       "SelectStmt", "ReturnStmt"}}
    \cup {CaseClause(n) : n \in 0..2}
    \cup {CommClause(c) : c \in BOOLEAN}
    \cup {BinaryExpr(op) : op \in {"LAND", "LOR", "ADD"}}
    \cup {CallIdent(<<"l", "e", "n">>)}

\* the functions f, T.m, g, h, ... of the package whose calls are counted
DeclName(i) == IF i = 1 THEN <<"f">> ELSE IF i = 2 THEN <<"m">> ELSE ChainName(i + 4)
DeclRecv(i) == IF i = 2 THEN <<"T">> ELSE EmptyString

\* calls of each of the first n functions by its name, of the method through a
\* variable t, through the type T and through an expression, of the builtin len
\* and of fmt.Println
CallPool(n) ==
    {CallIdent(DeclName(i)) : i \in {i \in 1..n : DeclRecv(i) = EmptyString}}
    \cup {CallSelector(TRUE, <<"T">>, <<"m">>), CallSelector(TRUE, <<"t">>, <<"m">>),
          CallSelector(FALSE, <<"T">>, <<"m">>),
          CallSelector(TRUE, <<"f", "m", "t">>, <<"P", "r", "i", "n", "t", "l", "n">>),
          CallIdent(<<"l", "e", "n">>)}

\* the body of function d when calls lists <<caller, call expression>> in
\* source order
bodyOf(calls, d) ==
    Flatten([i \in 1..Len(calls) |-> IF calls[i][1] = d THEN <<calls[i][2]>> ELSE <<>>])

InitFunc ==
    /\ pc = "CalculateComplexity"
    /\ \/ \E k \in 0..MaxNodes : \E body \in [1..k -> NodePool] :
            \/ funcDecls = <<OnLines(<<"f">>, EmptyString, body)>>
            \/ funcDecls = <<OnLines(<<"f">>, EmptyString, body), External(<<"g">>)>>
       \/ \E lbrace \in 1..MaxLine : \E rbrace \in lbrace..MaxLine :
            funcDecls = <<FuncDeclOf(<<"f">>, EmptyString, TRUE, <<>>, lbrace, rbrace)>>
       \/ \E n \in 1..MaxFuncs : \E k \in 0..MaxCalls :
            \E calls \in [1..k -> (1..n) \X CallPool(n)] :
                funcDecls = [d \in 1..n |-> OnLines(DeclName(d), DeclRecv(d), bodyOf(calls, d))]
    /\ functions = <<>>
    /\ DiagIdle /\ ClusterIdle /\ LcomIdle /\ DepsIdle /\ FieldIdle /\ ParseIdle /\ UfIdle

CalculateComplexityStep ==
    /\ pc = "CalculateComplexity"
    /\ functions' = CalculateComplexity(funcDecls)
    /\ pc' = "funcDone"
    /\ UNCHANGED <<funcDecls, diagVars, clusterVars, lcomVars, depsVars, fieldVars, parseVars, ufVars>>

NextFunc == CalculateComplexityStep

SpecFunc == InitFunc /\ [][NextFunc]_vars

(***************************************************************************)
(* Claims about function metrics, under SpecFunc.                           *)
(***************************************************************************)
LocalNames == {funcNameOf(funcDecls[d]) : d \in DOMAIN funcDecls}

\* the body of function d holds a call expression that resolves to function i
Calls(d, i) ==
    \E j \in DOMAIN funcDecls[d].body :
        /\ funcDecls[d].body[j].kind = "CallExpr"
        /\ calledNameOf(funcDecls[d].body[j], LocalNames) = funcNameOf(funcDecls[i])

\* C6: the Afferent of every function is the number of distinct other
\* functions of the package whose body holds at least one call expression
\* that resolves to it by its qualified name.
C6_AfferentCountsDistinctCallers ==
    pc = "funcDone" =>
        \A i \in DOMAIN funcDecls :
            functions[i].Afferent = Cardinality({d \in DOMAIN funcDecls \ {i} : Calls(d, i)})

\* the number of nodes of the body of d that are in the set S
NodesIn(d, S) == Cardinality({j \in DOMAIN funcDecls[d].body : funcDecls[d].body[j] \in S})

\* C10: the complexity of a function is 1 plus its if statements, for and
\* range loops, switch and type-switch statements, case clauses with at least
\* one value, select cases that are not the default, and && and || operators;
\* a function without a body has complexity 1 and LoC 0.
C10_ComplexityCountsDecisionPoints ==
    pc = "funcDone" =>
        \A d \in DOMAIN funcDecls :
            IF funcDecls[d].hasBody
            THEN functions[d].Complexity =
                    1 + NodesIn(d, {Node("IfStmt")})
                      + NodesIn(d, {Node("ForStmt"), Node("RangeStmt")})
                      + NodesIn(d, {Node("SwitchStmt"), Node("TypeSwitchStmt")})
                      + NodesIn(d, {CaseClause(1), CaseClause(2)})
                      + NodesIn(d, {CommClause(TRUE)})
                      + NodesIn(d, {BinaryExpr("LAND"), BinaryExpr("LOR")})
            ELSE functions[d].Complexity = 1 /\ functions[d].LoC = 0

\* a switch with one case and a default scored 3, next to a function without
\* a body
C10_Witness ==
    /\ pc = "funcDone"
    /\ Len(funcDecls) = 2
    /\ funcDecls[1].body = <<Node("SwitchStmt"), CaseClause(1), CaseClause(0)>>
    /\ functions[1].Complexity = 3
    /\ ~funcDecls[2].hasBody
    /\ functions[2].Complexity = 1 /\ functions[2].LoC = 0

(***************************************************************************)
(* The metrics of one analysis: Analyze computes the package coupling and   *)
(* the function metrics of each package.                                    *)
(***************************************************************************)
InitMetrics == InitDeps \/ InitFunc

NextMetrics == NextDeps \/ NextFunc

SpecMetrics == InitMetrics /\ [][NextMetrics]_vars

(***************************************************************************)
(* Claims about instability, under SpecMetrics.                             *)
(***************************************************************************)
\* the ratio r is a quotient by a non-zero number, lies in [0, 1], is
\* ce / (ca + ce) when ca + ce > 0 and is 0 when ca + ce = 0
IsInstabilityOf(r, ca, ce) ==
    /\ r.den > 0
    /\ 0 <= r.num /\ r.num <= r.den
    /\ ca + ce > 0 => r.num * (ca + ce) = ce * r.den
    /\ ca + ce = 0 => r.num = 0

\* C11: the instability of every package and of every function is in [0, 1],
\* is efferent / (afferent + efferent) when afferent + efferent > 0, and is 0
\* when afferent + efferent = 0, without a division by zero.
C11_InstabilityBounds ==
    /\ pc \in {"CalculateDependencyDepth", "depsDone"} =>
          \A p \in DOMAIN coupling :
              IsInstabilityOf(coupling[p].Instability, coupling[p].Afferent, coupling[p].Efferent)
    /\ pc = "funcDone" =>
          \A i \in DOMAIN functions :
              IsInstabilityOf(functions[i].Instability, functions[i].Afferent,
                              functions[i].Efferent)

\* a project with a package of instability 1/2 next to a package nothing
\* imports and that imports nothing
C11_Witness ==
    /\ pc = "depsDone"
    /\ \E p, q \in DOMAIN coupling :
         /\ coupling[p].Afferent = 1 /\ coupling[p].Efferent = 1
         /\ coupling[p].Instability = [num |-> 1, den |-> 2]
         /\ coupling[q].Afferent = 0 /\ coupling[q].Efferent = 0
         /\ coupling[q].Instability.num = 0

(***************************************************************************)
(* float64 arithmetic.  The power iteration of the field-usage analysis     *)
(* runs on rounded numbers, and what it returns depends on the rounding     *)
(* (errors of 1e-16 grow over its 100 rounds), so the operations of         *)
(* IEEE 754 binary64 are modelled bit for bit: a float64 is                 *)
(* [neg, mant, exp] with the value mant * 2^exp, negated when neg; mant is  *)
(* 0 or a number of exactly 53 bits.  Natural numbers are sequences of      *)
(* limbs below LimbBase, least significant first, without a leading zero    *)
(* limb; the operations on them take numbers of at most ten limbs,          *)
(* which holds the sum, the product and the shifted dividend of two         *)
(* mantissas.  Rounding is to nearest, ties to even, as on amd64, where the *)
(* Go compiler fuses no multiplication with an addition.  Exponents are     *)
(* unbounded: no value of the analysis overflows or becomes subnormal.      *)
(*                                                                          *)
(* A loop over limbs is gone through round by round on a record of its      *)
(* variables; a round leaves the record of a loop that has ended alone.     *)
(* The rounds are taken four at a time and four times four at a time, each  *)
(* evaluated before the next, so that the evaluation of a value never has   *)
(* to go back through the rounds before it.                                 *)
(***************************************************************************)
\* the number of bits of the number n < 2^31
SmallBitLen(n) == Cardinality({k \in 0..30 : 2^k <= n})

LimbBase == 2^14
LimbBits == SmallBitLen(LimbBase) - 1

\* the sequence with the same elements, evaluated
Forced(f) == SubSeq(f, 1, Len(f))

\* second, evaluated after first
After(first, second) == <<first, second>>[2]

\* a without its leading zero limbs
BnTrim(a) ==
    SubSeq(a, 1, CHOOSE n \in 0..Len(a) :
                     (n = 0 \/ a[n] # 0) /\ \A j \in (n + 1)..Len(a) : a[j] = 0)

BnLimb(a, i) == IF i <= Len(a) THEN a[i] ELSE 0

\* the smallest level with 4^level >= n
TreeLevel(n) == Cardinality({l \in 0..15 : 4^l < n})

\* a round of the carry loop on the number whose limb j is columns[j]:
\* s.limbs are its limbs so far and s.carry is the carry into the next
BnCarryRound(columns, s) ==
    IF s.carry = 0 /\ Len(s.limbs) >= Len(columns) THEN s
    ELSE [carry |-> (BnLimb(columns, Len(s.limbs) + 1) + s.carry) \div LimbBase,
          limbs |-> Append(s.limbs,
                           (BnLimb(columns, Len(s.limbs) + 1) + s.carry) % LimbBase)]

\* 4^level rounds of it
RECURSIVE BnCarryRounds(_, _, _)
BnCarryRounds(columns, s, level) ==
    LET s1 == BnCarryRounds(columns, s, level - 1)
        s2 == BnCarryRounds(columns, s1, level - 1)
        s3 == BnCarryRounds(columns, s2, level - 1)
        s4 == BnCarryRounds(columns, s3, level - 1)
    IN  IF level = 0 THEN BnCarryRound(columns, s) ELSE <<s1, s2, s3, s4>>[4]

\* the number whose limb i is cols[i], each cols[i] a number below 2^30: a
\* carry is below 2^17, and the loop has ended three rounds after the last
\* column
BnCarry(cols) ==
    BnTrim(BnCarryRounds(Forced(cols), [carry |-> 0, limbs |-> <<>>],
                         TreeLevel(Len(cols) + 3)).limbs)

BnOfInt(n) == BnCarry(<<n>>)

BnAdd(a, b) ==
    BnCarry([i \in 1..(IF Len(a) > Len(b) THEN Len(a) ELSE Len(b)) |->
                BnLimb(a, i) + BnLimb(b, i)])

\* a round of the borrow loop of a - b: s.limbs are the limbs of the
\* difference so far and s.borrow is the borrow from the next
BnBorrowRound(a, b, s) ==
    IF Len(s.limbs) >= Len(a) THEN s
    ELSE [borrow |-> IF a[Len(s.limbs) + 1] - BnLimb(b, Len(s.limbs) + 1) - s.borrow < 0
                     THEN 1 ELSE 0,
          limbs |-> Append(s.limbs,
                           (a[Len(s.limbs) + 1] - BnLimb(b, Len(s.limbs) + 1) - s.borrow
                                + LimbBase) % LimbBase)]

\* 4^level rounds of it
RECURSIVE BnBorrowRounds(_, _, _, _)
BnBorrowRounds(a, b, s, level) ==
    LET s1 == BnBorrowRounds(a, b, s, level - 1)
        s2 == BnBorrowRounds(a, b, s1, level - 1)
        s3 == BnBorrowRounds(a, b, s2, level - 1)
        s4 == BnBorrowRounds(a, b, s3, level - 1)
    IN  IF level = 0 THEN BnBorrowRound(a, b, s) ELSE <<s1, s2, s3, s4>>[4]

\* a - b for a >= b
BnSub(a, b) ==
    BnTrim(BnBorrowRounds(a, b, [borrow |-> 0, limbs |-> <<>>], TreeLevel(Len(a))).limbs)

\* -1, 0 or 1 as a is below, equal to or above b
BnCmp(a, b) ==
    LET highest(x, y) == \E i \in 1..Len(x) : x[i] > y[i] /\ \A j \in (i + 1)..Len(x) : x[j] = y[j]
    IN  CASE Len(a) < Len(b) -> 0 - 1
          [] Len(a) > Len(b) -> 1
          [] highest(a, b) -> 1
          [] highest(b, a) -> 0 - 1
          [] OTHER -> 0

\* limb k - j + 1 of a times limb j of b
BnTerm(a, b, k, j) ==
    IF j <= Len(b) /\ k - j + 1 >= 1 /\ k - j + 1 <= Len(a) THEN a[k - j + 1] * b[j] ELSE 0

\* a * b, b of at most 4 limbs
BnMulShort(a, b) ==
    BnCarry([k \in 1..(Len(a) + Len(b) - 1) |->
                BnTerm(a, b, k, 1) + BnTerm(a, b, k, 2) + BnTerm(a, b, k, 3) + BnTerm(a, b, k, 4)])

\* a * b, one of them of at most 4 limbs
BnMul(a, b) ==
    CASE Len(a) = 0 \/ Len(b) = 0 -> <<>>
      [] Len(b) <= Len(a) -> BnMulShort(a, b)
      [] OTHER -> BnMulShort(b, a)

BnShl(a, s) ==
    IF Len(a) = 0 THEN <<>>
    ELSE [i \in 1..(s \div LimbBits) |-> 0]
             \o BnCarry([i \in 1..Len(a) |-> a[i] * 2^(s % LimbBits)])

BnShr(a, s) ==
    IF s \div LimbBits >= Len(a) THEN <<>>
    ELSE BnTrim([i \in 1..(Len(a) - s \div LimbBits) |->
             (a[s \div LimbBits + i] \div 2^(s % LimbBits))
                 + (BnLimb(a, s \div LimbBits + i + 1) % 2^(s % LimbBits))
                       * 2^(LimbBits - (s % LimbBits))])

BnBitLen(a) == IF Len(a) = 0 THEN 0 ELSE LimbBits * (Len(a) - 1) + SmallBitLen(a[Len(a)])

BnIsOdd(a) == Len(a) > 0 /\ a[1] % 2 = 1

\* d * q for a digit q
BnTimes(d, q) == IF q = 0 THEN <<>> ELSE BnCarry([i \in 1..Len(d) |-> d[i] * q])

\* the digit and the remainder of r by d, product the product of d and a
\* digit q that is the digit sought or above it
RECURSIVE BnDivCorrect(_, _, _, _)
BnDivCorrect(d, r, q, product) ==
    IF BnCmp(product, r) <= 0 THEN [digit |-> q, rem |-> BnSub(r, product)]
    ELSE BnDivCorrect(d, r, q - 1, BnTimes(d, q - 1))

\* the same from a digit q that is the digit sought or above it
BnDivFrom(d, r, q) == BnDivCorrect(d, r, q, BnTimes(d, q))

\* the same from an estimate q of the digit that is not below it
BnDivEstimate(d, r, q) ==
    IF BnCmp(r, d) < 0 THEN [digit |-> 0, rem |-> r]
    ELSE BnDivFrom(d, r, IF q < LimbBase THEN q ELSE LimbBase - 1)

\* the digit and the remainder of r by d, for r below d * LimbBase and a d
\* whose highest limb is at least LimbBase / 2: the digit estimated from the
\* two highest limbs of r is the digit or above it by at most 2
BnDivDigit(d, r) ==
    BnDivEstimate(d, r, (BnLimb(r, Len(d) + 1) * LimbBase + BnLimb(r, Len(d))) \div d[Len(d)])

\* a step of the long division by d: the digit and the remainder of
\* r * LimbBase + limb by d, r below d
BnDivStep(d, r, limb) == BnDivDigit(d, BnTrim(<<limb>> \o r))

\* the variables of the long division after a step
BnDivAfter(s, step) ==
    [k |-> s.k - 1, quot |-> <<step.digit>> \o s.quot, rem |-> step.rem]

\* a round of the long division of u by d, from the highest limb of u down:
\* s.k is the limb to take next, s.quot are the digits and s.rem is the
\* remainder so far
BnDivRound(u, d, s) ==
    IF s.k = 0 THEN s ELSE BnDivAfter(s, BnDivStep(d, s.rem, u[s.k]))

\* 4^level rounds of it
RECURSIVE BnDivRounds(_, _, _, _)
BnDivRounds(u, d, s, level) ==
    LET s1 == BnDivRounds(u, d, s, level - 1)
        s2 == BnDivRounds(u, d, s1, level - 1)
        s3 == BnDivRounds(u, d, s2, level - 1)
        s4 == BnDivRounds(u, d, s3, level - 1)
    IN  IF level = 0 THEN BnDivRound(u, d, s) ELSE <<s1, s2, s3, s4>>[4]

\* the quotient and the remainder of the division whose rounds ended in s,
\* u and d shifted by shift bits
BnDivResult(s, shift) == [quot |-> BnTrim(s.quot), rem |-> BnShr(s.rem, shift)]

\* the quotient and the remainder of u by d, both shifted so that the
\* highest limb of d is at least LimbBase / 2
BnDivShifted(u, d, shift) ==
    BnDivResult(BnDivRounds(u, d, [k |-> Len(u), quot |-> <<>>, rem |-> <<>>],
                            TreeLevel(Len(u))), shift)

\* the quotient and the remainder of a by d, d other than 0
BnDivMod(a, d) ==
    BnDivShifted(BnShl(a, LimbBits - SmallBitLen(d[Len(d)])),
                 BnShl(d, LimbBits - SmallBitLen(d[Len(d)])),
                 LimbBits - SmallBitLen(d[Len(d)]))

\* the largest r with r * r <= n, from x >= sqrt(n) by Newton's iteration
RECURSIVE IntSqrtFrom(_, _)
IntSqrtFrom(n, x) ==
    IF (x + n \div x) \div 2 < x THEN IntSqrtFrom(n, (x + n \div x) \div 2) ELSE x

\* the largest r with r * r <= n, n from 1 to 2^28
IntSqrt(n) == IntSqrtFrom(n, LimbBase)

\* Newton's iteration from s.x >= sqrt(a) to next: it has ended when next is
\* not below s.x
BnSqrtStep(s, next) ==
    IF BnCmp(next, s.x) < 0 THEN [x |-> next, done |-> FALSE] ELSE [x |-> s.x, done |-> TRUE]

\* next is (s.x + quot) \div 2 for the quotient quot of a by s.x
BnSqrtMean(s, quot) == After(quot, BnSqrtStep(s, BnShr(BnAdd(s.x, quot), 1)))

\* a round of the iteration
BnSqrtRound(a, s) == IF s.done THEN s ELSE BnSqrtMean(s, BnDivMod(a, s.x).quot)

\* 4^level rounds of it
RECURSIVE BnSqrtRounds(_, _, _)
BnSqrtRounds(a, s, level) ==
    LET s1 == BnSqrtRounds(a, s, level - 1)
        s2 == BnSqrtRounds(a, s1, level - 1)
        s3 == BnSqrtRounds(a, s2, level - 1)
        s4 == BnSqrtRounds(a, s3, level - 1)
    IN  IF level = 0 THEN BnSqrtRound(a, s) ELSE <<s1, s2, s3, s4>>[4]

\* the largest r with r * r <= a, from an estimate x above it by less than
\* one part in 2^6: the error of a round is below the square of the error
\* before it, and the iteration ends within 16 rounds for a below 2^256
BnSqrtNear(a, x) == BnSqrtRounds(a, [x |-> x, done |-> FALSE], TreeLevel(16)).x

\* the largest r with r * r <= a, a of 7 or 8 limbs, from the square root of
\* its highest limb or two
BnSqrt(a) ==
    BnSqrtNear(a, [i \in 1..((Len(a) - 1) \div 2) |-> 0]
                      \o BnOfInt(IntSqrt(IF Len(a) % 2 = 0
                                         THEN a[Len(a)] * LimbBase + a[Len(a) - 1]
                                         ELSE a[Len(a)]) + 1))

FloatZero == [neg |-> FALSE, mant |-> <<>>, exp |-> 0]

IsFloatZero(x) == Len(x.mant) = 0

\* bit k of a, counted from 0, and: a bit of a below bit k is set
BnBit(a, k) == (BnLimb(a, k \div LimbBits + 1) \div 2^(k % LimbBits)) % 2

BnAnyBelow(a, k) ==
    \E i \in 1..Len(a) :
        \/ i <= k \div LimbBits /\ a[i] # 0
        \/ i = k \div LimbBits + 1 /\ a[i] % 2^(k % LimbBits) # 0

\* the float64 with the mantissa m of 53 or 54 bits
FloatOfRounded(neg, m, e) ==
    IF BnBitLen(m) = 54 THEN [neg |-> neg, mant |-> BnShr(m, 1), exp |-> e + 1]
    ELSE [neg |-> neg, mant |-> m, exp |-> e]

\* the float64 nearest to m * 2^e for m of len > 53 bits, q its highest 53
\* bits, or to a number just above it when sticky
RoundHighest(neg, m, e, sticky, len, q) ==
    IF BnBit(m, len - 54) = 1 /\ (BnAnyBelow(m, len - 54) \/ sticky \/ BnIsOdd(q))
    THEN FloatOfRounded(neg, BnAdd(q, <<1>>), e + len - 53)
    ELSE [neg |-> neg, mant |-> q, exp |-> e + len - 53]

\* the same for m of len bits
RoundOfLen(neg, m, e, sticky, len) ==
    CASE len = 0 -> [neg |-> neg, mant |-> <<>>, exp |-> 0]
      [] len \in 1..53 -> [neg |-> neg, mant |-> BnShl(m, 53 - len), exp |-> e - (53 - len)]
      [] OTHER -> RoundHighest(neg, m, e, sticky, len, BnShr(m, len - 53))

\* the float64 nearest to m * 2^e, or to a number just above it when sticky
RoundToFloat(neg, m, e, sticky) == RoundOfLen(neg, m, e, sticky, BnBitLen(m))

FloatOfBn(m) == RoundToFloat(FALSE, m, 0, FALSE)

\* float64(n)
FloatOfInt(n) == RoundToFloat(n < 0, BnOfInt(IF n < 0 THEN 0 - n ELSE n), 0, FALSE)

FloatNeg(x) == [x EXCEPT !.neg = ~x.neg]

FloatAbs(x) == [x EXCEPT !.neg = FALSE]

\* the float64 nearest to a + b or, for neg # negB, to a - b, where a * 2^e
\* has the sign neg and b * 2^e the sign negB, and cmp compares a with b
FloatOfSum(neg, a, negB, b, e, cmp) ==
    RoundToFloat(CASE neg = negB \/ cmp > 0 -> neg
                   [] cmp < 0 -> negB
                   [] OTHER -> FALSE,
                 CASE neg = negB -> BnAdd(a, b)
                   [] cmp > 0 -> BnSub(a, b)
                   [] OTHER -> BnSub(b, a),
                 e, FALSE)

\* x + y for the mantissa a of x shifted to the exponent e, b that of y
FloatAddShifted(x, a, y, b, e) == FloatOfSum(x.neg, a, y.neg, b, e, BnCmp(a, b))

\* x + y for x and y other than 0, the exponent of x not below that of y; a
\* y more than 60 binary places below x rounds as the lowest of them does
FloatAddAligned(x, y) ==
    FloatAddShifted(x, BnShl(x.mant, IF x.exp - y.exp > 60 THEN 60 ELSE x.exp - y.exp),
                    y, IF x.exp - y.exp > 60 THEN <<1>> ELSE y.mant,
                    IF x.exp - y.exp > 60 THEN x.exp - 60 ELSE y.exp)

FloatAdd(x, y) ==
    CASE IsFloatZero(x) /\ IsFloatZero(y) -> [FloatZero EXCEPT !.neg = x.neg /\ y.neg]
      [] IsFloatZero(x) -> y
      [] IsFloatZero(y) -> x
      [] OTHER -> FloatAddAligned(IF x.exp >= y.exp THEN x ELSE y,
                                  IF x.exp >= y.exp THEN y ELSE x)

FloatSub(x, y) == FloatAdd(x, FloatNeg(y))

FloatMul(x, y) ==
    IF IsFloatZero(x) \/ IsFloatZero(y) THEN [FloatZero EXCEPT !.neg = x.neg # y.neg]
    ELSE RoundToFloat(x.neg # y.neg, BnMul(x.mant, y.mant), x.exp + y.exp, FALSE)

\* the float64 nearest to a number with the quotient res.quot * 2^e, above
\* it when the division left a remainder
FloatOfQuotient(neg, res, e) == After(res, RoundToFloat(neg, res.quot, e, Len(res.rem) > 0))

\* x / y for y other than 0
FloatDiv(x, y) ==
    After(y, IF IsFloatZero(x) THEN [FloatZero EXCEPT !.neg = x.neg # y.neg]
             ELSE FloatOfQuotient(x.neg # y.neg, BnDivMod(BnShl(x.mant, 56), y.mant),
                                  x.exp - y.exp - 56))

\* the float64 nearest to the square root of a * 4^e, r the largest number
\* with r * r <= a
FloatOfRoot(a, r, e) == After(r, RoundToFloat(FALSE, r, e, BnCmp(BnMul(r, r), a) # 0))

\* the same for a
FloatSqrtOf(a, e) == FloatOfRoot(a, BnSqrt(a), e)

\* math.Sqrt(x) for x not below 0
FloatSqrt(x) ==
    IF IsFloatZero(x) THEN x
    ELSE FloatSqrtOf(BnShl(x.mant, 56 + (x.exp % 2)), (x.exp - 56 - (x.exp % 2)) \div 2)

\* x < y
FloatLess(x, y) ==
    CASE IsFloatZero(x) /\ IsFloatZero(y) -> FALSE
      [] IsFloatZero(x) -> ~y.neg
      [] IsFloatZero(y) -> x.neg
      [] x.neg # y.neg -> x.neg
      [] x.neg -> x.exp > y.exp \/ (x.exp = y.exp /\ BnCmp(x.mant, y.mant) > 0)
      [] OTHER -> x.exp < y.exp \/ (x.exp = y.exp /\ BnCmp(x.mant, y.mant) < 0)

(***************************************************************************)
(* The cluster estimate of the field-usage analysis (estimateClustersViaPCA *)
(* after computeTopEigenvalues, and estimateClusterCount).  A float64 of    *)
(* the analysis is modelled in one of two ways.  Where the power iteration  *)
(* is gone through round by round it is the float64 itself, bit for bit.    *)
(* Where the value the iteration arrives at is known in closed form it is   *)
(* the ratio [num, den] in lowest terms the float64 approximates to within  *)
(* rounding error; such a ratio that lies on a threshold the code compares  *)
(* it with carries side, which says that the float64 is below (-1), on (0)  *)
(* or above (1) the threshold, and an explained variance carries cum, the   *)
(* same for the cumulative sum up to it.  The eigenvalues of SpecEstimate   *)
(* are drawn from EigenPool, values on which float64 arithmetic takes the   *)
(* same branches as exact arithmetic in every comparison below.             *)
(***************************************************************************)
RECURSIVE GCD(_, _)
GCD(a, b) == IF b = 0 THEN a ELSE GCD(b, a % b)

Ratio(n, d) == LET g == GCD(n, d) IN [num |-> n \div g, den |-> d \div g]

RatioAdd(a, b) == Ratio(a.num * b.den + b.num * a.den, a.den * b.den)

RatioDiv(a, b) == Ratio(a.num * b.den, a.den * b.num)

\* a > n/d and a >= n/d
RatioGT(a, n, d) == a.num * d > n * a.den
RatioGE(a, n, d) == a.num * d >= n * a.den

RECURSIVE RatioSum(_, _)
RatioSum(list, n) == IF n = 0 THEN Ratio(0, 1) ELSE RatioAdd(RatioSum(list, n - 1), list[n])

\* arithmetic on ratios of either sign, in lowest terms with a positive
\* denominator
RatioNeg(a) == [num |-> 0 - a.num, den |-> a.den]

RatioAbs(a) == IF a.num < 0 THEN RatioNeg(a) ELSE a

RatioPlus(a, b) ==
    LET l == (a.den \div GCD(a.den, b.den)) * b.den
    IN  Ratio(a.num * (l \div a.den) + b.num * (l \div b.den), l)

RatioMinus(a, b) == RatioPlus(a, RatioNeg(b))

RatioTimes(a, b) ==
    LET g == GCD(a.num, b.den)
        h == GCD(b.num, a.den)
    IN  [num |-> (a.num \div g) * (b.num \div h), den |-> (a.den \div h) * (b.den \div g)]

\* a / b for b other than 0
RatioOver(a, b) ==
    RatioTimes(a, IF b.num < 0 THEN [num |-> 0 - b.den, den |-> 0 - b.num]
                  ELSE [num |-> b.den, den |-> b.num])

RatioLess(a, b) == a.num * b.den < b.num * a.den

IsFloat(a) == "mant" \in DOMAIN a

\* the float64 of a number, a ratio of two integers that float64 holds
ToFloat(a) == IF IsFloat(a) THEN a ELSE FloatDiv(FloatOfInt(a.num), FloatOfInt(a.den))

SideOf(a) == IF "side" \in DOMAIN a THEN a.side ELSE 0

CumSideOf(a) == IF "cum" \in DOMAIN a THEN a.cum ELSE 0

\* a + b and a / b
Plus(a, b) ==
    IF IsFloat(a) \/ IsFloat(b) THEN FloatAdd(ToFloat(a), ToFloat(b))
    ELSE RatioPlus([num |-> a.num, den |-> a.den], [num |-> b.num, den |-> b.den])

Over(a, b) ==
    IF IsFloat(a) \/ IsFloat(b) THEN FloatDiv(ToFloat(a), ToFloat(b))
    ELSE RatioOver([num |-> a.num, den |-> a.den], [num |-> b.num, den |-> b.den])

\* a > n/d and a >= n/d, n/d written as a constant of the code; side is
\* where a float64 that a ratio on the threshold stands for lies
GreaterThan(a, n, d, side) ==
    IF IsFloat(a) THEN FloatLess(ToFloat(Ratio(n, d)), a)
    ELSE a.num * d > n * a.den \/ (a.num * d = n * a.den /\ side = 1)

NotLess(a, n, d, side) ==
    IF IsFloat(a) THEN ~FloatLess(a, ToFloat(Ratio(n, d)))
    ELSE a.num * d > n * a.den \/ (a.num * d = n * a.den /\ side >= 0)

\* a < b
Less(a, b) ==
    IF IsFloat(a) \/ IsFloat(b) THEN FloatLess(ToFloat(a), ToFloat(b))
    ELSE RatioLess(a, b) \/ (a.num = b.num /\ a.den = b.den /\ SideOf(a) < SideOf(b))

\* totalVariance and explainedVariance of estimateClustersViaPCA
RECURSIVE totalVarianceFrom(_, _, _)
totalVarianceFrom(evs, i, totalVariance) ==
    IF i > Len(evs) THEN totalVariance
    ELSE totalVarianceFrom(evs, i + 1,
             IF GreaterThan(evs[i], 0, 1, 0) THEN Plus(totalVariance, evs[i])
             ELSE totalVariance)

totalVarianceOf(evs) == totalVarianceFrom(evs, 1, Ratio(0, 1))

explainedVarianceBy(evs, totalVariance) ==
    Forced([i \in 1..Len(evs) |->
        IF GreaterThan(totalVariance, 0, 1, 0) THEN Over(evs[i], totalVariance)
        ELSE Ratio(0, 1)])

explainedVarianceOf(evs) == explainedVarianceBy(evs, totalVarianceOf(evs))

kaiserCount(evs) ==
    Cardinality({i \in 1..Len(evs) : GreaterThan(evs[i], 1, 1, SideOf(evs[i]))})

\* the second loop of estimateClusterCount from index i (0-based) on
RECURSIVE elbowLoop(_, _, _)
elbowLoop(explainedVariance, i, elbowCount) ==
    IF i < Len(explainedVariance) - 1
    THEN IF GreaterThan(explainedVariance[i + 1], 1, 10, SideOf(explainedVariance[i + 1]))
         THEN elbowLoop(explainedVariance, i + 1, i + 1)
         ELSE elbowCount
    ELSE elbowCount

elbowCountOf(explainedVariance) == elbowLoop(explainedVariance, 0, 1)

\* the third loop of estimateClusterCount in the round of index i (0-based),
\* cumulativeVariance with explainedVariance[i] added
RECURSIVE varianceLoop(_, _, _)
varianceLoop(explainedVariance, i, cumulativeVariance) ==
    IF NotLess(cumulativeVariance, 4, 5, CumSideOf(explainedVariance[i + 1])) THEN i + 1
    ELSE IF i + 1 = Len(explainedVariance) THEN i + 1
    ELSE varianceLoop(explainedVariance, i + 1,
                      Plus(cumulativeVariance, explainedVariance[i + 2]))

varianceCountOf(explainedVariance) ==
    IF Len(explainedVariance) = 0 THEN 0
    ELSE varianceLoop(explainedVariance, 0, Plus(Ratio(0, 1), explainedVariance[1]))

\* the votes of the three methods: the larger of the Kaiser and the elbow
\* count, the variance count when that is smaller, and between 1 and 5
estimateClusterCount(evs, explainedVariance) ==
    IF Len(evs) = 0 THEN 1
    ELSE Max(1, Min(5, Min(varianceCountOf(explainedVariance),
                           Max(elbowCountOf(explainedVariance), kaiserCount(evs)))))

\* the result of estimateClustersViaPCA from the eigenvalues and the
\* explained variance
estimateResult(evs, explainedVariance) ==
    [clusters |-> estimateClusterCount(evs, explainedVariance),
     explainedVariance |-> explainedVariance,
     elbowCount |-> elbowCountOf(explainedVariance)]

\* estimateClustersViaPCA from the eigenvalues on
estimateFromEigenvalues(evs) == estimateResult(evs, explainedVarianceOf(evs))

\* 0.5, 1, 1.5, 6 and 18
EigenPool == {Ratio(1, 2), Ratio(1, 1), Ratio(3, 2), Ratio(6, 1), Ratio(18, 1)}

\* computeTopEigenvalues appends only eigenvalues above 1e-10
InitEstimate ==
    /\ pc = "estimateClusterCount"
    /\ \E n \in 0..MaxEigen : eigenvalues \in [1..n -> EigenPool]
    /\ fmInput = <<>> /\ fmResult = <<>> /\ pcaResult = <<>>
    /\ DiagIdle /\ ClusterIdle /\ LcomIdle /\ DepsIdle /\ FuncIdle /\ ParseIdle /\ UfIdle

EstimateClusterCount ==
    /\ pc = "estimateClusterCount"
    /\ pcaResult' = estimateFromEigenvalues(eigenvalues)
    /\ pc' = "estimated"
    /\ UNCHANGED <<fmInput, fmResult, eigenvalues, diagVars, clusterVars, lcomVars, depsVars,
                   funcVars, parseVars, ufVars>>

NextEstimate == EstimateClusterCount

SpecEstimate == InitEstimate /\ [][NextEstimate]_vars

(***************************************************************************)
(* Field usage (field_matrix.go): AnalyzeFieldMatrix on the fields of a     *)
(* struct and the methods of its file.  A method is [recvTypeName,          *)
(* recvName, methodName, body], recvName empty when the receiver has no     *)
(* name; body lists the nodes ast.Inspect visits in the method's body that  *)
(* findFieldUsageWeighted looks at: an assignment [Lhs, Rhs], Lhs its       *)
(* left-hand expressions and Rhs the selector expressions inside its        *)
(* right-hand side in visiting order, or a selector expression outside an   *)
(* assignment.  A selector is [X, Sel], X the expression it selects from:   *)
(* an identifier with its name, or an expression of another kind.           *)
(***************************************************************************)
Identifier(name) == [isIdent |-> TRUE, Name |-> name]

\* an expression that is no identifier, such as the call mk()
OtherExpr == [isIdent |-> FALSE, Name |-> EmptyString]

Selector(x, sel) == [kind |-> "SelectorExpr", X |-> x, Sel |-> sel, Lhs |-> <<>>, Rhs |-> <<>>]

AssignStmt(lhs, rhs) ==
    [kind |-> "AssignStmt", X |-> OtherExpr, Sel |-> EmptyString, Lhs |-> lhs, Rhs |-> rhs]

\* the selector names a field of the struct through the receiver
isFieldOfRecv(e, recvName, fieldMap) ==
    /\ e.kind = "SelectorExpr"
    /\ e.X.isIdent
    /\ e.X.Name = recvName
    /\ e.Sel \in fieldMap

\* the write branch, the read branch inside a right-hand side and the read
\* branch outside an assignment
markWrite(fieldUsage, f) ==
    IF Get(fieldUsage, f, 0) % 2 = 1 THEN Put(fieldUsage, f, 3) ELSE Put(fieldUsage, f, 2)

markRhsRead(fieldUsage, f) ==
    IF Get(fieldUsage, f, 0) = 2 THEN Put(fieldUsage, f, 3)
    ELSE IF Get(fieldUsage, f, 0) = 0 THEN Put(fieldUsage, f, 1)
    ELSE fieldUsage

markRead(fieldUsage, f) ==
    IF Get(fieldUsage, f, 0) = 0 THEN Put(fieldUsage, f, 1)
    ELSE IF Get(fieldUsage, f, 0) = 2 THEN Put(fieldUsage, f, 3)
    ELSE fieldUsage

\* one of the loops over expressions: mark(usage, field) for each expression
\* of list that names a field through the receiver
RECURSIVE markAll(_, _, _, _, _, _)
markAll(fieldUsage, list, i, recvName, fieldMap, write) ==
    IF i > Len(list) THEN fieldUsage
    ELSE markAll(IF isFieldOfRecv(list[i], recvName, fieldMap)
                 THEN IF write THEN markWrite(fieldUsage, list[i].Sel)
                      ELSE markRhsRead(fieldUsage, list[i].Sel)
                 ELSE fieldUsage,
                 list, i + 1, recvName, fieldMap, write)

RECURSIVE inspectBody(_, _, _, _, _)
inspectBody(fieldUsage, body, i, recvName, fieldMap) ==
    IF i > Len(body) THEN fieldUsage
    ELSE LET n == body[i]
             next == IF n.kind = "AssignStmt"
                     THEN markAll(markAll(fieldUsage, n.Lhs, 1, recvName, fieldMap, TRUE),
                                  n.Rhs, 1, recvName, fieldMap, FALSE)
                     ELSE IF isFieldOfRecv(n, recvName, fieldMap)
                     THEN markRead(fieldUsage, n.Sel)
                     ELSE fieldUsage
         IN  inspectBody(next, body, i + 1, recvName, fieldMap)

findFieldUsageWeighted(body, recvName, fieldMap) ==
    inspectBody(EmptyMap, body, 1, recvName, fieldMap)

extractMethodsWithFieldsWeighted(structName, file, structFields) ==
    Flatten([i \in 1..Len(file) |->
        IF file[i].recvTypeName = structName
        THEN <<[methodName |-> file[i].methodName,
                fieldUsage |-> findFieldUsageWeighted(file[i].body, file[i].recvName,
                                                      Range(structFields))]>>
        ELSE <<>>])

buildWeightedUsageMatrix(methods, fields) ==
    [matrix |-> [i \in 1..Len(methods) |->
                    [j \in 1..Len(fields) |-> Get(methods[i].fieldUsage, fields[j], 0)]],
     methodNames |-> [i \in 1..Len(methods) |-> methods[i].methodName]]

(***************************************************************************)
(* The eigenvalues of the covariance matrix, as the code computes them:     *)
(* centerMatrix, computeCovarianceMatrix, computeTopEigenvalues,            *)
(* powerIteration and deflateMatrix on float64.                             *)
(***************************************************************************)
FloatHalf == FloatDiv(FloatOfInt(1), FloatOfInt(2))

\* 1e-10
FloatTiny == FloatDiv(FloatOfInt(1), FloatOfBn(BnMul(BnOfInt(100000), BnOfInt(100000))))

\* sum += list[i] for i from from on, the sums in the order of the loop
RECURSIVE FloatSumFrom(_, _, _)
FloatSumFrom(list, from, sum) ==
    IF from > Len(list) THEN sum
    ELSE After(sum, FloatSumFrom(list, from + 1, FloatAdd(sum, list[from])))

\* sum += a[i] * b[i] from the sum 0 on
FloatDot(a, b) ==
    FloatSumFrom(Forced([i \in 1..Len(a) |-> FloatMul(a[i], b[i])]), 1, FloatZero)

Column(matrix, j) == Forced([k \in 1..Len(matrix) |-> matrix[k][j]])

\* the conversion loop of estimateClustersViaPCA
FloatMatrix(matrix) ==
    Forced([i \in 1..Len(matrix) |->
        Forced([j \in 1..Len(matrix[i]) |-> FloatOfInt(matrix[i][j])])])

\* a copy of a matrix of float64, each given as such or as a ratio
copyMatrix(matrix) ==
    Forced([i \in 1..Len(matrix) |->
        Forced([j \in 1..Len(matrix[i]) |-> ToFloat(matrix[i][j])])])

\* centered[i][j] = matrix[i][j] - means[j]
centeredBy(matrix, means) ==
    After(means, Forced([i \in 1..Len(matrix) |->
                     Forced([j \in 1..Len(matrix[i]) |-> FloatSub(matrix[i][j], means[j])])]))

centerMatrix(matrix) ==
    IF Len(matrix) = 0 THEN matrix
    ELSE centeredBy(matrix,
             Forced([j \in 1..Len(matrix[1]) |->
                 FloatDiv(FloatSumFrom(Column(matrix, j), 1, FloatZero),
                          FloatOfInt(Len(matrix)))]))

\* cov[i][j] for j from i on is the sum of matrix[k][i] * matrix[k][j] over
\* the rows divided by rows - 1, and cov[j][i] is assigned the same value
computeCovarianceMatrix(matrix) ==
    IF Len(matrix) = 0 THEN <<>>
    ELSE Forced([i \in 1..Len(matrix[1]) |-> Forced([j \in 1..Len(matrix[1]) |->
             FloatDiv(FloatDot(Column(matrix, Min(i, j)), Column(matrix, Max(i, j))),
                      FloatOfInt(Len(matrix) - 1))])])

\* one round of the loop of powerIteration on its variables: v and eigenvalue
\* as round iter finds them, done once the loop has ended.  lastV and last2V
\* are the vectors at the start of the two rounds before, last2Eigenvalue the
\* eigenvalue of the earlier of them: a round that starts from the vector of
\* one of them repeats it, every later round repeats another, and the
\* eigenvalue of round maxIter - 1 is known without going through them.
\* The end of a round: eigenvalue = numerator / denominator if
\* denominator > 0; the loop breaks on a norm below 1e-10 and leaves v
\* alone, and v becomes newV over norm otherwise
powerIterationNormalize(s, newV, numerator, denominator, norm) ==
    After(<<numerator, denominator, norm>>,
          [iter |-> s.iter + 1,
           v |-> IF FloatLess(norm, FloatTiny) THEN s.v
                 ELSE Forced([i \in 1..Len(newV) |-> FloatDiv(newV[i], norm)]),
           eigenvalue |-> IF FloatLess(FloatZero, denominator)
                          THEN FloatDiv(numerator, denominator)
                          ELSE s.eigenvalue,
           lastV |-> s.v,
           last2V |-> s.lastV,
           last2Eigenvalue |-> s.eigenvalue,
           done |-> FloatLess(norm, FloatTiny)])

\* a round from newV, the matrix times v, on
powerIterationStep(s, newV) ==
    After(newV, powerIterationNormalize(s, newV, FloatDot(newV, s.v), FloatDot(s.v, s.v),
                                        FloatSqrt(FloatDot(newV, newV))))

powerIterationRound(matrix, maxIter, s) ==
    CASE s.done -> s
      [] s.iter >= maxIter -> [s EXCEPT !.done = TRUE]
      [] s.iter >= 1 /\ s.v = s.lastV -> [s EXCEPT !.done = TRUE]
      [] s.iter >= 2 /\ s.v = s.last2V ->
             [s EXCEPT !.done = TRUE,
                       !.eigenvalue = IF (maxIter - s.iter) % 2 = 1
                                      THEN s.last2Eigenvalue
                                      ELSE s.eigenvalue]
      [] OTHER ->
             powerIterationStep(s, Forced([i \in 1..Len(matrix) |-> FloatDot(matrix[i], s.v)]))

\* the rounds from s on until the loop has ended, at most 10^level of them
RECURSIVE powerIterationRounds(_, _, _, _)
powerIterationRounds(matrix, maxIter, s, level) ==
    LET s1 == powerIterationRounds(matrix, maxIter, s, level - 1)
        s2 == powerIterationRounds(matrix, maxIter, s1, level - 1)
        s3 == powerIterationRounds(matrix, maxIter, s2, level - 1)
        s4 == powerIterationRounds(matrix, maxIter, s3, level - 1)
        s5 == powerIterationRounds(matrix, maxIter, s4, level - 1)
        s6 == powerIterationRounds(matrix, maxIter, s5, level - 1)
        s7 == powerIterationRounds(matrix, maxIter, s6, level - 1)
        s8 == powerIterationRounds(matrix, maxIter, s7, level - 1)
        s9 == powerIterationRounds(matrix, maxIter, s8, level - 1)
        s10 == powerIterationRounds(matrix, maxIter, s9, level - 1)
    IN  CASE s.done -> s
          [] level = 0 -> powerIterationRound(matrix, maxIter, s)
          [] OTHER -> <<s1, s2, s3, s4, s5, s6, s7, s8, s9, s10>>[10]

\* the variables of powerIteration before its loop: v[i] = start
powerIterationStart(n, start) ==
    After(start,
    [iter |-> 0, v |-> Forced([i \in 1..n |-> start]), eigenvalue |-> FloatZero,
     lastV |-> <<>>, last2V |-> <<>>, last2Eigenvalue |-> FloatZero, done |-> FALSE])

\* powerIteration on a matrix of float64 from the variables s on: 10^level
\* is at least maxIter
powerIterationFrom(matrix, maxIter, s) ==
    After(<<s, matrix>>,
          FloatAbs(powerIterationRounds(matrix, maxIter, s,
                       Cardinality({l \in 0..9 : 10^l < maxIter})).eigenvalue))

powerIteration(matrix, maxIter) ==
    IF Len(matrix) = 0 THEN FloatZero
    ELSE powerIterationFrom(copyMatrix(matrix), maxIter,
             powerIterationStart(Len(matrix),
                 FloatDiv(FloatOfInt(1), FloatSqrt(FloatOfInt(Len(matrix))))))

deflateMatrix(matrix, eigenvalue) ==
    Forced([i \in 1..Len(matrix) |-> Forced([j \in 1..Len(matrix[i]) |->
        IF i = j THEN FloatSub(matrix[i][j], FloatMul(eigenvalue, FloatHalf))
        ELSE matrix[i][j]])])

\* eigenvalue <= 1e-10
IsInsignificant(eigenvalue) ==
    IF IsFloat(eigenvalue) THEN ~FloatLess(FloatTiny, eigenvalue)
    ELSE eigenvalue.num <= 0 \/ (eigenvalue.den \div eigenvalue.num) \div 100000 >= 100000

\* the loop of computeTopEigenvalues from round iter on, eigenvalue what
\* powerIteration(workMatrix, 100) returns in that round
RECURSIVE topEigenvaluesLoop(_, _, _, _, _)
topEigenvaluesLoop(workMatrix, k, iter, found, eigenvalue) ==
    CASE iter >= k -> found
      [] ~FloatLess(FloatTiny, eigenvalue) -> found
      [] OTHER -> topEigenvaluesLoop(deflateMatrix(workMatrix, eigenvalue), k, iter + 1,
                                     Append(found, eigenvalue),
                                     powerIteration(deflateMatrix(workMatrix, eigenvalue), 100))

topEigenvaluesOf(workMatrix, k) ==
    topEigenvaluesLoop(workMatrix, k, 0, <<>>, powerIteration(workMatrix, 100))

computeTopEigenvalues(matrix, k) ==
    IF Len(matrix) = 0 THEN <<>>
    ELSE topEigenvaluesOf(copyMatrix(matrix), Min(k, Len(matrix)))

(***************************************************************************)
(* The same eigenvalues in closed form, for a usage matrix whose covariance *)
(* matrix has rank at most 1 (its rows are two patterns, or lie on a line). *)
(* With lambda the eigenvalue of the covariance matrix other than 0, the    *)
(* matrix powerIteration works on in a round of computeTopEigenvalues is    *)
(* the covariance matrix less sigma on the diagonal, sigma half the sum of  *)
(* the eigenvalues found so far: it has the eigenvalue p = lambda - sigma   *)
(* once and q = -sigma otherwise.  The start vector of n equal entries has  *)
(* the squared length x along the eigenvector of p and y = n - x across it, *)
(* x the sum of the entries of the covariance matrix over lambda, and the   *)
(* vector of round i is a multiple of the matrix to the power i times the   *)
(* start vector, so that the quotient of round i is                         *)
(*     (p^(2i+1) * x + q^(2i+1) * y) / (p^(2i) * x + q^(2i) * y).           *)
(*   The matrix times the start vector is 0: the first round finds a norm   *)
(*     below 1e-10 and a quotient below it, and the loop ends.              *)
(*   x = 0 or y = 0: every round has the quotient q or p; the rounding      *)
(*     errors, which have a part along every eigenvector, stay small when   *)
(*     no other eigenvalue is larger in magnitude.                          *)
(*   p = -q: every round has the quotient p * (x - y) / n.                  *)
(*   otherwise the quotient tends to the one of p and q of larger           *)
(*     magnitude, with an error of (small / big)^(2i) times a ratio of x    *)
(*     and y: below the precision of a float64 in round 99 when small / big *)
(*     is at most 3/4.                                                      *)
(* In every other case the value depends on the rounding errors of the      *)
(* rounds and there is no closed form.                                      *)
(***************************************************************************)
RECURSIVE IntSum(_, _)
IntSum(list, n) == IF n = 0 THEN 0 ELSE IntSum(list, n - 1) + list[n]

\* the covariance matrix of the usage matrix, exactly: entry (i, j) is the
\* sum over the rows of (x[k][i] - mean[i]) * (x[k][j] - mean[j]) divided by
\* rows - 1
ExactCovariance(matrix) ==
    LET rows == Len(matrix)
        cols == Len(matrix[1])
        colSum(j) == IntSum([k \in 1..rows |-> matrix[k][j]], rows)
        centered(k, j) == rows * matrix[k][j] - colSum(j)
    IN  [i \in 1..cols |-> [j \in 1..cols |->
            Ratio(IntSum([k \in 1..rows |-> centered(k, i) * centered(k, j)], rows),
                  rows * rows * (rows - 1))]]

RankAtMostOne(matrix) ==
    \A i, j, k, l \in 1..Len(matrix) :
        RatioTimes(matrix[i][j], matrix[k][l]) = RatioTimes(matrix[i][l], matrix[k][j])

RECURSIVE RatioTotal(_, _)
RatioTotal(list, n) ==
    IF n = 0 THEN Ratio(0, 1) ELSE RatioPlus(RatioTotal(list, n - 1), list[n])

\* the value of powerIteration(matrix, 100) in a round of
\* computeTopEigenvalues, as a list: the value where there is a closed form,
\* empty where there is none
closedFormRound(lambda, x, n, sigma) ==
    LET y == RatioMinus(Ratio(n, 1), x)
        p == RatioMinus(lambda, sigma)
        q == RatioNeg(sigma)
        absP == RatioAbs(p)
        absQ == RatioAbs(q)
        big == IF RatioLess(absQ, absP) THEN absP ELSE absQ
        small == IF RatioLess(absQ, absP) THEN absQ ELSE absP
    IN  IF (x.num = 0 \/ p.num = 0) /\ (y.num = 0 \/ q.num = 0) THEN <<Ratio(0, 1)>>
        ELSE IF x.num = 0 THEN IF RatioLess(absQ, absP) THEN <<>> ELSE <<absQ>>
        ELSE IF y.num = 0 THEN IF RatioLess(absP, absQ) THEN <<>> ELSE <<absP>>
        ELSE IF p = RatioNeg(q)
        THEN <<RatioAbs(RatioOver(RatioTimes(p, RatioMinus(x, y)), Ratio(n, 1)))>>
        ELSE IF 4 * small.num * big.den <= 3 * big.num * small.den THEN <<big>>
        ELSE <<>>

\* the loop of computeTopEigenvalues with iter rounds left, as a list: the
\* eigenvalues where every round has a closed form, empty otherwise
RECURSIVE closedFormLoop(_, _, _, _, _, _)
closedFormLoop(lambda, x, n, sigma, iter, found) ==
    IF iter = 0 THEN <<found>>
    ELSE LET round == closedFormRound(lambda, x, n, sigma)
         IN  IF round = <<>> THEN <<>>
             ELSE IF IsInsignificant(round[1]) THEN <<found>>
             ELSE closedFormLoop(lambda, x, n,
                                 RatioPlus(sigma, RatioTimes(round[1], Ratio(1, 2))),
                                 iter - 1, Append(found, round[1]))

closedFormEigenvalues(covariance, k) ==
    LET n == Len(covariance)
        lambda == RatioTotal([i \in 1..n |-> covariance[i][i]], n)
        total == RatioTotal([i \in 1..n |-> RatioTotal(covariance[i], n)], n)
        x == IF lambda.num = 0 THEN Ratio(0, 1) ELSE RatioOver(total, lambda)
    IN  IF ~RankAtMostOne(covariance) THEN <<>>
        ELSE closedFormLoop(lambda, x, n, Ratio(0, 1), Min(k, n), <<>>)

\* the thresholds an explained variance is compared with: 0.1 where the
\* elbow loop looks at it, 0.5 and 0.3 for the first, and the midpoint
\* between two tenths of a percent
OnThreshold(explainedVariance, i) ==
    \/ i < Len(explainedVariance) /\ explainedVariance[i] = Ratio(1, 10)
    \/ i = 1 /\ explainedVariance[i] \in {Ratio(1, 2), Ratio(3, 10)}
    \/ /\ (2000 * explainedVariance[i].num) % explainedVariance[i].den = 0
       /\ ((2000 * explainedVariance[i].num) \div explainedVariance[i].den) % 2 = 1

Sides(onThreshold) == IF onThreshold THEN {0 - 1, 0, 1} ELSE {0}

Near(a, side, cum) ==
    IF side = 0 /\ cum = 0 THEN a
    ELSE IF cum = 0 THEN [num |-> a.num, den |-> a.den, side |-> side]
    ELSE IF side = 0 THEN [num |-> a.num, den |-> a.den, cum |-> cum]
    ELSE [num |-> a.num, den |-> a.den, side |-> side, cum |-> cum]

\* the eigenvalues and the results of estimateClustersViaPCA that float64
\* values within rounding error of the ratios evs give: one, unless a value
\* lies on a threshold, where rounding decides the comparison
estimateOutcome(evs, explainedVariance) ==
    [eigenvalues |-> evs, result |-> estimateResult(evs, explainedVariance)]

estimatesAround(evs, explainedVariance) ==
    {estimateOutcome([i \in 1..Len(evs) |-> Near(evs[i], e[i], 0)],
                     [i \in 1..Len(evs) |-> Near(explainedVariance[i], s[i], c[i])]) :
     e \in SeqProduct([i \in 1..Len(evs) |-> Sides(evs[i] = Ratio(1, 1))]),
     s \in SeqProduct([i \in 1..Len(evs) |-> Sides(OnThreshold(explainedVariance, i))]),
     c \in SeqProduct([i \in 1..Len(evs) |->
               Sides(RatioTotal(explainedVariance, i) = Ratio(4, 5))])}

estimatesNear(evs) == estimatesAround(evs, explainedVarianceOf(evs))

\* the eigenvalues and the result of estimateClustersViaPCA as float64
\* arithmetic gives them
estimateOfFloats(evs) == After(evs, {estimateOutcome(evs, explainedVarianceOf(evs))})

\* closed is the list closedFormEigenvalues gives for the matrix
estimatesOf(matrix, closed) ==
    IF closed # <<>> THEN estimatesNear(closed[1])
    ELSE estimateOfFloats(
             computeTopEigenvalues(computeCovarianceMatrix(centerMatrix(FloatMatrix(matrix))), 5))

\* the eigenvalues and the result of estimateClustersViaPCA
estimateClustersViaPCA(matrix) ==
    estimatesOf(matrix, closedFormEigenvalues(ExactCovariance(matrix), 5))

\* %d of a number that is not negative
RECURSIVE FormatInt(_)
FormatInt(n) ==
    IF n < 10 THEN <<DecimalDigits[n + 1]>>
    ELSE FormatInt(n \div 10) \o <<DecimalDigits[(n % 10) + 1]>>

RECURSIVE BnToInt(_)
BnToInt(a) == IF Len(a) = 0 THEN 0 ELSE a[1] + LimbBase * BnToInt(Tail(a))

\* v * 100 rounded to one decimal, in tenths: to the nearest, and to the
\* even one from the midpoint
RoundToTenths(v) ==
    LET whole == (1000 * v.num) \div v.den
        rest == (1000 * v.num) % v.den
        up == \/ 2 * rest > v.den
              \/ 2 * rest = v.den /\ (SideOf(v) = 1 \/ (SideOf(v) = 0 /\ whole % 2 = 1))
    IN  IF up THEN whole + 1 ELSE whole

\* whole, or the tenth after it: cmp compares what m / 2^s has beyond whole
\* with one half
TenthsNearest(whole, cmp) ==
    IF cmp > 0 \/ (cmp = 0 /\ BnIsOdd(whole)) THEN BnToInt(whole) + 1 ELSE BnToInt(whole)

TenthsOfShifted(m, s, whole) ==
    TenthsNearest(whole, BnCmp(BnSub(m, BnShl(whole, s)), BnShl(<<1>>, s - 1)))

\* m / 2^s rounded to the nearest integer, and to the even one from the
\* midpoint
TenthsRounded(m, s) == TenthsOfShifted(m, s, BnShr(m, s))

\* w * 10 rounded so
TenthsOfFloat(w) ==
    IF IsFloatZero(w) THEN 0
    ELSE IF w.exp >= 0 THEN BnToInt(BnShl(BnMul(w.mant, BnOfInt(10)), w.exp))
    ELSE TenthsRounded(BnMul(w.mant, BnOfInt(10)), 0 - w.exp)

\* the same of the float64 v * 100, for v not below 0
FloatTenths(v) == TenthsOfFloat(FloatMul(v, FloatOfInt(100)))

FormatTenths(tenths) ==
    FormatInt(tenths \div 10) \o <<".">> \o FormatInt(tenths % 10) \o <<"%">>

\* fmt.Sprintf("%.1f%%", v*100)
FormatPercent(v) == FormatTenths(IF IsFloat(v) THEN FloatTenths(v) ELSE RoundToTenths(v))

\* sort.Float64s and the reversal after it
RECURSIVE InsertDescending(_, _)
InsertDescending(sorted, v) ==
    IF sorted = <<>> THEN <<v>>
    ELSE IF Less(Head(sorted), v) THEN <<v>> \o sorted
    ELSE <<Head(sorted)>> \o InsertDescending(Tail(sorted), v)

RECURSIVE SortDescending(_)
SortDescending(list) ==
    IF list = <<>> THEN <<>>
    ELSE InsertDescending(SortDescending(SubSeq(list, 1, Len(list) - 1)), list[Len(list)])

RECURSIVE JoinPercents(_)
JoinPercents(list) ==
    IF list = <<>> THEN EmptyString
    ELSE IF Len(list) = 1 THEN FormatPercent(list[1])
    ELSE FormatPercent(list[1]) \o <<", ">> \o JoinPercents(Tail(list))

\* the format string generateRecommendations fills in and its arguments
generateRecommendations(clusters, numMethods, numFields, explainedVariance) ==
    IF clusters = 1
    THEN [format |-> "single cohesive responsibility", args |-> <<numMethods, numFields>>]
    ELSE LET first == explainedVariance[1]
             primaryStrength ==
                 IF Len(explainedVariance) > 0 /\ GreaterThan(first, 1, 2, SideOf(first))
                 THEN "strong"
                 ELSE IF Len(explainedVariance) > 0 /\ ~NotLess(first, 3, 10, SideOf(first))
                 THEN "weak"
                 ELSE "moderate"
             topVariances ==
                 SortDescending(SubSeq(explainedVariance, 1,
                                       Min(clusters, Len(explainedVariance))))
             varianceStr == JoinPercents(topVariances)
         IN  [format |-> "distinct responsibility clusters",
              args |-> <<clusters, varianceStr, primaryStrength, clusters>>]

\* what AnalyzeFieldMatrix can return, next to the eigenvalues and the result
\* of estimateClustersViaPCA when it got that far
NoAnalysis == {[analysis |-> Nil, eigenvalues |-> <<>>, pca |-> <<>>]}

AnalysisOf(built, fields) ==
    {[analysis |->
         [isNil |-> FALSE,
          Matrix |-> built.matrix,
          MethodNames |-> built.methodNames,
          FieldNames |-> fields,
          EstimatedClusters |-> e.result.clusters,
          ExplainedVariance |-> e.result.explainedVariance,
          HasMultipleResponsibilities |-> e.result.clusters >= 2,
          Recommendations |-> generateRecommendations(e.result.clusters,
                                  Len(built.methodNames), Len(fields),
                                  e.result.explainedVariance)],
      eigenvalues |-> e.eigenvalues,
      pca |-> e.result] :
     e \in estimateClustersViaPCA(built.matrix)}

AnalyzeFieldMatrix_NoFilter(structName, file, fields) ==
    IF Len(fields) < 3 THEN NoAnalysis
    ELSE LET methods == extractMethodsWithFieldsWeighted(structName, file, fields)
             built == buildWeightedUsageMatrix(methods, fields)
         IN  IF Len(methods) < 2 THEN NoAnalysis
             ELSE AnalysisOf(built, fields)

AnalyzeFieldMatrix(structName, file, fields) ==
    IF Len(fields) < 3 THEN NoAnalysis
    ELSE LET methods == extractMethodsWithFieldsWeighted(structName, file, fields)
             filteredMethods ==
                 Flatten([i \in 1..Len(methods) |->
                     IF ~isUtilityMethod(methods[i].methodName) THEN <<methods[i]>> ELSE <<>>])
             built == buildWeightedUsageMatrix(filteredMethods, fields)
         IN  IF Len(methods) = 0 THEN NoAnalysis
             ELSE IF Len(filteredMethods) < 2 THEN NoAnalysis
             ELSE IF Len(built.matrix) < 2 \/ Len(built.matrix[1]) < 3 THEN NoAnalysis
             ELSE AnalysisOf(built, fields)

\* struct S with the fields f, g, ... in a file that also holds methods of a
\* struct T.  The first method is one of S: with the receiver s and any body
\* of at most MaxAccess nodes about the field f (through s, through another
\* variable or through a call) or a name that is no field, or with a
\* receiver without a name and one such node.  The others have the receiver
\* s and all read g or all write h; each is a method of S named b, c, ..., a
\* utility method of S named GetR, GetS, ... or a method of T.  The rows of
\* the usage matrix then show at most two patterns.  MixedFile is a file of
\* three methods of S with three patterns, TiedFile one of two methods whose
\* covariance matrix has the eigenvalue 1, the threshold of the Kaiser count.
\* GeneralFiles are files of three methods of a struct of three fields, with
\* the receivers s, r and s: the first two have any of three bodies that
\* read, write, or read and write the fields through their receiver or
\* through another variable, the third writes h, so that the rows of the
\* usage matrix show up to three patterns with the weights 1, 2 and 3.
FmStructName == <<"S">>

RecvName == <<"s">>

UtilityName(i) == <<"G", "e", "t", Alphabet[i + 2]>>

MethodOf(recvTypeName, recvName, methodName, body) ==
    [recvTypeName |-> recvTypeName, recvName |-> recvName, methodName |-> methodName,
     body |-> body]

AccessPool ==
    LET f == LcomFieldName(1)
        s == Identifier(RecvName)
    IN  {Selector(s, f), Selector(s, <<"n">>), Selector(OtherExpr, f),
         AssignStmt(<<Selector(s, f)>>, <<>>),
         AssignStmt(<<Selector(Identifier(<<"o">>), f)>>, <<Selector(s, f)>>),
         AssignStmt(<<Selector(s, f)>>, <<Selector(s, f)>>)}

ReadsG == <<Selector(Identifier(RecvName), LcomFieldName(2))>>

WritesH == <<AssignStmt(<<Selector(Identifier(RecvName), LcomFieldName(3))>>, <<>>)>>

FirstMethods ==
    {MethodOf(FmStructName, RecvName, ChainName(1), body) :
        body \in UNION {[1..k -> AccessPool] : k \in 0..MaxAccess}}
    \cup {MethodOf(FmStructName, EmptyString, ChainName(1), <<node>>) : node \in AccessPool}

MixedFile ==
    <<MethodOf(FmStructName, RecvName, ChainName(1),
               <<Selector(Identifier(RecvName), LcomFieldName(1))>>),
      MethodOf(FmStructName, RecvName, ChainName(2), ReadsG),
      MethodOf(FmStructName, RecvName, ChainName(3), WritesH)>>

TiedFile ==
    <<MethodOf(FmStructName, RecvName, ChainName(1),
               <<Selector(Identifier(RecvName), LcomFieldName(1))>> \o ReadsG),
      MethodOf(FmStructName, RecvName, ChainName(2), <<>>)>>

GeneralBodies(recvName) ==
    LET r == Identifier(recvName)
        f == LcomFieldName(1)
        g == LcomFieldName(2)
        h == LcomFieldName(3)
    IN  {<<AssignStmt(<<Selector(r, g)>>, <<Selector(r, f)>>)>>,
         <<AssignStmt(<<Selector(r, h)>>, <<Selector(r, h)>>)>>,
         <<Selector(r, g), Selector(Identifier(RecvName), f), AssignStmt(<<Selector(r, h)>>, <<>>)>>}

GeneralFiles ==
    {<<MethodOf(FmStructName, RecvName, ChainName(1), first),
       MethodOf(FmStructName, <<"r">>, ChainName(2), second),
       MethodOf(FmStructName, RecvName, ChainName(3), WritesH)>> :
     first \in GeneralBodies(RecvName), second \in GeneralBodies(<<"r">>)}

FmMethods(n) ==
    UNION {SeqProduct([i \in 1..n |->
              IF i = 1 THEN FirstMethods
              ELSE {MethodOf(FmStructName, RecvName, ChainName(i), other),
                    MethodOf(FmStructName, RecvName, UtilityName(i), other),
                    MethodOf(<<"T">>, RecvName, ChainName(i), other)}]) :
           other \in {ReadsG, WritesH}}
    \cup (IF n = Len(MixedFile) THEN {MixedFile} ELSE {})
    \cup (IF n = Len(TiedFile) THEN {TiedFile} ELSE {})

InitField ==
    /\ pc = "AnalyzeFieldMatrix"
    /\ \/ \E k \in 0..MaxFmFields : \E n \in 0..MaxFmMethods : \E methods \in FmMethods(n) :
              fmInput = [fields |-> [i \in 1..k |-> LcomFieldName(i)], file |-> methods]
       \/ \E methods \in GeneralFiles :
              fmInput = [fields |-> [i \in 1..3 |-> LcomFieldName(i)], file |-> methods]
    /\ fmResult = <<>> /\ eigenvalues = <<>> /\ pcaResult = <<>>
    /\ DiagIdle /\ ClusterIdle /\ LcomIdle /\ DepsIdle /\ FuncIdle /\ ParseIdle /\ UfIdle

AnalyzeFieldMatrixStep ==
    /\ pc = "AnalyzeFieldMatrix"
    /\ \E r \in AnalyzeFieldMatrix(FmStructName, fmInput.file, fmInput.fields) :
           /\ fmResult' = r.analysis
           /\ eigenvalues' = r.eigenvalues
           /\ pcaResult' = r.pca
    /\ pc' = "fieldDone"
    /\ UNCHANGED <<fmInput, diagVars, clusterVars, lcomVars, depsVars, funcVars, parseVars, ufVars>>

NextField == AnalyzeFieldMatrixStep

SpecField == InitField /\ [][NextField]_vars

(***************************************************************************)
(* Claims about the field usage matrix, under SpecField.                    *)
(***************************************************************************)
\* the methods of the struct in the file, and those that are no utility
\* methods, in source order
OwnMethods == SelectSeq(fmInput.file, LAMBDA m : m.recvTypeName = FmStructName)

NonUtilityMethods == SelectSeq(OwnMethods, LAMBDA m : ~isUtilityMethod(m.methodName))

\* C15: AnalyzeFieldMatrix returns nil exactly when the struct has fewer than
\* 3 fields or fewer than 2 non-utility methods; a returned result has one
\* matrix row per non-utility method, one column per field, every cell in
\* {0, 1, 2, 3}, and HasMultipleResponsibilities is true exactly when
\* EstimatedClusters >= 2.
C15_FieldMatrixContract ==
    pc = "fieldDone" =>
        /\ fmResult = Nil <=> (Len(fmInput.fields) < 3 \/ Len(NonUtilityMethods) < 2)
        /\ fmResult # Nil =>
            /\ Len(fmResult.Matrix) = Len(NonUtilityMethods)
            /\ fmResult.MethodNames =
                   [i \in 1..Len(NonUtilityMethods) |-> NonUtilityMethods[i].methodName]
            /\ \A i \in 1..Len(fmResult.Matrix) :
                   /\ Len(fmResult.Matrix[i]) = Len(fmInput.fields)
                   /\ \A j \in 1..Len(fmInput.fields) : fmResult.Matrix[i][j] \in 0..3
            /\ fmResult.HasMultipleResponsibilities <=> fmResult.EstimatedClusters >= 2

\* a result for a struct one of whose methods is a utility method, with a
\* field both read and written and an estimate of at least 2
C15_Witness ==
    /\ pc = "fieldDone"
    /\ fmResult # Nil
    /\ Len(OwnMethods) > Len(NonUtilityMethods)
    /\ \E i \in 1..Len(fmResult.Matrix) : fmResult.Matrix[i][1] = 3
    /\ fmResult.HasMultipleResponsibilities

(***************************************************************************)
(* Claims about the cluster estimate, under SpecEstimate.                   *)
(***************************************************************************)
\* the three heuristics as the specification words them, on the explained
\* variance the run computed
SpecKaiser == Cardinality({i \in DOMAIN eigenvalues : RatioGT(eigenvalues[i], 1, 1)})

\* the number of leading components above 10%
SpecElbow ==
    LET xv == pcaResult.explainedVariance
        leading == {p \in 0..Len(xv) : \A i \in 1..p : RatioGT(xv[i], 1, 10)}
    IN  CHOOSE p \in leading : \A q \in leading : q <= p

\* the smallest prefix whose cumulative explained variance reaches 80%, the
\* whole list when none does
SpecCap ==
    LET xv == pcaResult.explainedVariance
        reaching == {p \in 1..Len(xv) : RatioGE(RatioSum(xv, p), 4, 5)}
    IN  IF reaching = {} THEN Len(xv)
        ELSE CHOOSE p \in reaching : \A q \in reaching : p <= q

\* C27: for a list of 1 to 5 components, the elbow count estimateClusterCount
\* uses is the number of leading components whose explained variance exceeds
\* 10%, the last component included.
C27_ElbowCountsLeadingComponents ==
    (pc = "estimated" /\ Len(eigenvalues) \in 1..5) => pcaResult.elbowCount = SpecElbow

\* C16: estimateClusterCount returns max(Kaiser, elbow), reduced to the
\* cumulative-variance cap, then clamped into 1..5; the result is in 1..5 and
\* is 1 when no eigenvalue was extracted.
C16_EstimateIsCappedMax ==
    pc = "estimated" =>
        /\ pcaResult.clusters \in 1..5
        /\ Len(eigenvalues) = 0 => pcaResult.clusters = 1
        /\ Len(eigenvalues) > 0 =>
              pcaResult.clusters = Min(5, Max(1, Min(Max(SpecKaiser, SpecElbow), SpecCap)))

(***************************************************************************)
(* Parsing the target directory (parsePackages and Analyze of the analyzer  *)
(* package).  tree.dirs lists the directories under the target path in the  *)
(* lexical order filepath.Walk visits them, the target itself first; a path *)
(* is the sequence of its segments below the target.  A directory's content *)
(* is what reading and parsing it gives: unreadable (Walk hands its         *)
(* callback the error of reading the directory), parseErr (parser.ParseDir  *)
(* returns an error) and pkgs, the names of the packages ParseDir returns   *)
(* (with an error, those of the files that did parse).                      *)
(***************************************************************************)
MaxDirs == 2

RootBase == <<"p">>
HiddenDir == <<".", "h">>
VendorDir == <<"v", "e", "n", "d", "o", "r">>
TestdataDir == <<"t", "e", "s", "t", "d", "a", "t", "a">>

defaultExcludes == <<VendorDir, TestdataDir>>

\* filepath.ToSlash(filepath.Rel(rootPath, path)) and filepath.Base(path)
RECURSIVE relPathOf(_)
relPathOf(path) ==
    IF path = <<>> THEN Dot
    ELSE IF Len(path) = 1 THEN path[1]
    ELSE relPathOf(SubSeq(path, 1, Len(path) - 1)) \o Slash \o path[Len(path)]

baseNameOf(path) == IF path = <<>> THEN RootBase ELSE path[Len(path)]

\* the package path parsePackages stores a directory under
pkgPathOf(path) == IF relPathOf(path) = Dot THEN EmptyString ELSE relPathOf(path)

IsBelow(path, dir) == Len(dir) < Len(path) /\ SubSeq(path, 1, Len(dir)) = dir

\* the callback of filepath.Walk that stores the packages of a directory
\* whatever ParseDir reports
walkFn_KeepPartial(w, dir, allExcludes) ==
    IF w.err \/ \E sk \in w.skipDirs : IsBelow(dir.path, sk) THEN w
    ELSE IF dir.unreadable THEN [w EXCEPT !.err = TRUE]
    ELSE IF HasPrefix(baseNameOf(dir.path), Dot) THEN [w EXCEPT !.skipDirs = @ \cup {dir.path}]
    ELSE IF \E i \in DOMAIN allExcludes :
                baseNameOf(dir.path) = allExcludes[i] \/ relPathOf(dir.path) = allExcludes[i]
         THEN [w EXCEPT !.skipDirs = @ \cup {dir.path}]
    ELSE IF dir.pkgs = {} THEN w
    ELSE [w EXCEPT !.packages = Put(@, pkgPathOf(dir.path), dir.pkgs)]

\* the callback parsePackages hands to filepath.Walk, on the walk so far: err
\* once a callback returned an error (the walk stops), skipDirs the
\* directories it returned SkipDir for (their subtrees are not visited), and
\* packages the names the map entry of each package path can hold (each
\* package of the directory is stored under the same key, in map order)
walkFn(w, dir, allExcludes) ==
    IF w.err \/ \E sk \in w.skipDirs : IsBelow(dir.path, sk) THEN w
    ELSE IF dir.unreadable THEN [w EXCEPT !.err = TRUE]
    ELSE IF HasPrefix(baseNameOf(dir.path), Dot) THEN [w EXCEPT !.skipDirs = @ \cup {dir.path}]
    ELSE IF \E i \in DOMAIN allExcludes :
                baseNameOf(dir.path) = allExcludes[i] \/ relPathOf(dir.path) = allExcludes[i]
         THEN [w EXCEPT !.skipDirs = @ \cup {dir.path}]
    ELSE IF dir.parseErr THEN w
    ELSE IF dir.pkgs = {} THEN w
    ELSE [w EXCEPT !.packages = Put(@, pkgPathOf(dir.path), dir.pkgs)]

\* parsePackages: the error of the walk, or the maps package path |-> name of
\* the stored package it can return
parsePackages(dirs, excludeDirs) ==
    LET allExcludes == defaultExcludes \o excludeDirs
        W[i \in 0..Len(dirs)] ==
            IF i = 0 THEN [err |-> FALSE, skipDirs |-> {}, packages |-> EmptyMap]
            ELSE walkFn(W[i - 1], dirs[i], allExcludes)
        end == W[Len(dirs)]
    IN  IF end.err THEN {[err |-> TRUE, packages |-> EmptyMap]}
        ELSE {[err |-> FALSE, packages |-> m] :
                 m \in {f \in [DOMAIN end.packages -> UNION Range(end.packages)] :
                           \A k \in DOMAIN f : f[k] \in end.packages[k]}}

\* Analyze, as far as the package list goes: an error when parsePackages
\* fails, else one PackageResult per entry of the package map, in the order
\* the map is ranged over.  Diagnostics and TotalLoC of the Report are
\* computed from the same map.
Analyze(dirs, excludeDirs) ==
    UNION {IF parsedPkgs.err THEN {[err |-> TRUE, Packages |-> <<>>]}
           ELSE {[err |-> FALSE,
                  Packages |-> [i \in DOMAIN o |->
                                   [Name |-> parsedPkgs.packages[o[i]], Path |-> o[i]]]] :
                    o \in Orderings(DOMAIN parsedPkgs.packages)} :
              parsedPkgs \in parsePackages(dirs, excludeDirs)}

\* the directories below the target, in the order of the walk
DirPool == <<<<HiddenDir>>, <<<<"a">>>>, <<<<"a">>, <<"c">>>>, <<<<"b">>>>, <<VendorDir>>>>

DirContents ==
    {[unreadable |-> FALSE, parseErr |-> e, pkgs |-> ps] :
        e \in BOOLEAN, ps \in {{}, {<<"p">>}, {<<"p">>, <<"q">>}}}
    \cup {[unreadable |-> TRUE, parseErr |-> TRUE, pkgs |-> {}]}

ExcludePool == {<<>>, <<<<"b">>>>, <<<<"a", "/", "c">>>>}

\* the trees of at most n directories below the target: every directory
\* but the target has its parent in the tree
DirTrees(n) ==
    LET chosen == {S \in SUBSET DOMAIN DirPool :
                      /\ Cardinality(S) <= n
                      /\ \A i \in S : Len(DirPool[i]) > 1 =>
                             \E j \in S : DirPool[j] = SubSeq(DirPool[i], 1, Len(DirPool[i]) - 1)}
        InOrder(S) == SelectSeq([i \in DOMAIN DirPool |-> i], LAMBDA i : i \in S)
    IN  UNION {{[i \in 1..(Cardinality(S) + 1) |->
                    [path |-> IF i = 1 THEN <<>> ELSE DirPool[InOrder(S)[i - 1]],
                     unreadable |-> c[i].unreadable,
                     parseErr |-> c[i].parseErr,
                     pkgs |-> c[i].pkgs]] :
                  c \in [1..(Cardinality(S) + 1) -> DirContents]} : S \in chosen}

ParseBusyIdle ==
    DiagIdle /\ ClusterIdle /\ LcomIdle /\ DepsIdle /\ FuncIdle /\ FieldIdle /\ UfIdle

InitParse ==
    /\ pc = "Analyze"
    /\ \E dirs \in DirTrees(MaxDirs) : \E ex \in ExcludePool :
           tree = [dirs |-> dirs, excludeDirs |-> ex]
    /\ report = <<>>
    /\ ParseBusyIdle

AnalyzeStep ==
    /\ pc = "Analyze"
    /\ report' \in Analyze(tree.dirs, tree.excludeDirs)
    /\ pc' = "analyzed"
    /\ UNCHANGED <<tree, diagVars, clusterVars, lcomVars, depsVars, funcVars, fieldVars, ufVars>>

NextParse == AnalyzeStep

SpecParse == InitParse /\ [][NextParse]_vars

(***************************************************************************)
(* Claims about parse failures, under SpecParse.                            *)
(***************************************************************************)
\* the directories the walk enters: no directory above them is hidden or
\* matches an exclude pattern; and those of them it keeps walking into
IsSkipDir(d) ==
    \/ HasPrefix(baseNameOf(d.path), Dot)
    \/ \E ex \in Range(defaultExcludes) \cup Range(tree.excludeDirs) :
           baseNameOf(d.path) = ex \/ relPathOf(d.path) = ex

Entered ==
    {i \in DOMAIN tree.dirs :
        \A j \in DOMAIN tree.dirs :
            IsBelow(tree.dirs[i].path, tree.dirs[j].path) => ~IsSkipDir(tree.dirs[j])}

\* the directories whose Go files fail to parse, and the directories that
\* parse to a package
FailingDirs ==
    {i \in Entered : ~tree.dirs[i].unreadable /\ ~IsSkipDir(tree.dirs[i]) /\ tree.dirs[i].parseErr}

ParsingDirs ==
    {i \in Entered : /\ ~tree.dirs[i].unreadable /\ ~IsSkipDir(tree.dirs[i])
                     /\ ~tree.dirs[i].parseErr /\ tree.dirs[i].pkgs # {}}

ResultsFor(i) ==
    {k \in DOMAIN report.Packages : report.Packages[k].Path = pkgPathOf(tree.dirs[i].path)}

\* C25: a directory whose Go files fail to parse contributes no package,
\* Analyze returns an error only when the walk itself fails on a directory
\* it cannot read, and otherwise the report holds exactly one PackageResult
\* for every directory that parses.
C25_ParseFailureSkipsDirectoryOnly ==
    pc = "analyzed" =>
        /\ report.err <=> (\E i \in Entered : tree.dirs[i].unreadable)
        /\ \A i \in FailingDirs : ResultsFor(i) = {}
        /\ ~report.err =>
              \A i \in ParsingDirs :
                  /\ Cardinality(ResultsFor(i)) = 1
                  /\ \A k \in ResultsFor(i) : report.Packages[k].Name \in tree.dirs[i].pkgs

\* a directory with a file that parses and a file that does not is skipped,
\* and the directory below it and the target are reported
C25_Witness ==
    /\ pc = "analyzed"
    /\ ~report.err
    /\ \E i \in FailingDirs :
           /\ tree.dirs[i].pkgs # {}
           /\ \E j \in ParsingDirs : IsBelow(tree.dirs[j].path, tree.dirs[i].path)
    /\ 1 \in ParsingDirs
    /\ Len(report.Packages) = 2

\* the tree without the directories that fail to parse (and what is below)
WithoutFailingDirs ==
    SelectSeq(tree.dirs,
              LAMBDA d : \A i \in FailingDirs :
                             d.path # tree.dirs[i].path /\ ~IsBelow(d.path, tree.dirs[i].path))

\* C26: what Analyze returns for a project with directories skipped for
\* parse failures differs from what it returns for the same project without
\* those directories.
C26_SkippedDirectoriesVisible ==
    (pc = "analyzed" /\ ~report.err /\ FailingDirs # {} /\ 1 \notin FailingDirs) =>
        report \notin Analyze(WithoutFailingDirs, tree.excludeDirs)

(***************************************************************************)
(* The unionFind of lcom4.go step by step.  A run is either the calls one   *)
(* of its two callers makes, in the caller's order (calculateStructLCOM4    *)
(* on a struct, findMethodClusters on the methods of a struct), or any      *)
(* sequence of add, union and find on four nodes, union and find on added   *)
(* nodes, with at most MaxUfUnions pairs of nodes joined.  ufLinks records  *)
(* the pairs union was called on.                                           *)
(***************************************************************************)
MaxUfNodes == 3
MaxUfUnions == 3

AddCall(node) == <<"add", node, node>>
UnionCall(node1, node2) == <<"union", node1, node2>>
FindCall(node) == <<"find", node, node>>

\* the calls of getComponents on a union-find with these nodes: find for
\* every node, in the order the map parent is ranged over
componentCalls(nodes) == {[i \in DOMAIN o |-> FindCall(o[i])] : o \in Perms(nodes)}

\* the calls of calculateStructLCOM4: add for the methods, add for the
\* fields, union for each used field, and the finds of getComponents; none
\* when the struct has no method
lcomCalls(fields, methods) ==
    IF Len(methods) = 0 THEN {<<>>}
    ELSE {[i \in DOMAIN methods |-> AddCall(methods[i].name)]
              \o [i \in DOMAIN fields |-> AddCall(fields[i])]
              \o [i \in DOMAIN pairs |-> UnionCall(pairs[i][1], pairs[i][2])]
              \o finds :
          pairs \in unionOrders(methods),
          finds \in componentCalls({methods[i].name : i \in DOMAIN methods} \cup Range(fields))}

\* the orders in which the second loop of findMethodClusters can call union:
\* the callers in any order, the callees of each in any order
callPairOrders(callGraph) ==
    UNION {{Flatten(po) :
              po \in SeqProduct([i \in 1..Len(callers) |->
                        {[j \in 1..Len(callees) |-> <<callers[i], callees[j]>>] :
                            callees \in Perms(DOMAIN callGraph[callers[i]])}])} :
           callers \in Perms(DOMAIN callGraph)}

\* the calls of findMethodClusters: add for the private methods that are no
\* utility methods in the order the map privateMethods is ranged over, union
\* for each edge of the call graph, and the finds of getComponents
clusterCalls(callGraph, privateMethods) ==
    LET nodes == {m \in DOMAIN privateMethods : ~privateMethods[m].isUtility}
    IN  {[i \in DOMAIN added |-> AddCall(added[i])]
              \o [i \in DOMAIN pairs |-> UnionCall(pairs[i][1], pairs[i][2])]
              \o finds :
          added \in Perms(nodes),
          pairs \in callPairOrders(callGraph),
          finds \in componentCalls(nodes)}

\* the calls AnalyzeMethodClustering leads to for the methods of a struct
clusteringCalls(methods) ==
    IF DOMAIN methods = {} \/ DOMAIN privateMethodsOf(methods) = {} THEN {<<>>}
    ELSE clusterCalls(buildPrivateMethodCallGraph(privateMethodsOf(methods), methods),
                      privateMethodsOf(methods))

\* the nodes of the runs that are not a caller's
UfNodePool == {<<"h">>, <<"i">>, <<"j">>, <<"k">>}

UfBusyIdle ==
    DiagIdle /\ ClusterIdle /\ LcomIdle /\ DepsIdle /\ FuncIdle /\ FieldIdle /\ ParseIdle

InitUnionFind ==
    /\ unionFind = newUnionFind
    /\ ufLinks = {}
    /\ \/ pc = "ufAny" /\ ufCalls = <<>>
       \/ /\ pc = "ufCaller"
          /\ \/ \E n \in 0..MaxUfNodes : \E k \in 0..(MaxUfNodes - n) :
                  \E input \in OrderInputs(n, k) :
                      ufCalls \in lcomCalls(input.fields, input.methods)
             \/ \E M \in {M \in SUBSET PoolNames : Cardinality(M) <= MaxUfNodes} :
                  \E cs \in [M -> {C \in SUBSET PoolNames : Cardinality(C) <= 1}] :
                      ufCalls \in clusteringCalls(GeneralFacts(M, cs))
    /\ UfBusyIdle

\* the next call of the caller
CallerStep ==
    /\ pc = "ufCaller"
    /\ ufCalls # <<>>
    /\ LET call == Head(ufCalls)
       IN  IF call[1] = "add"
           THEN /\ unionFind' = add(unionFind, call[2])
                /\ ufLinks' = ufLinks
           ELSE IF call[1] = "union"
           THEN /\ unionFind' = union(unionFind, call[2], call[3])
                /\ ufLinks' = ufLinks \cup {{call[2], call[3]}}
           ELSE /\ unionFind' = find(unionFind, call[2]).uf
                /\ ufLinks' = ufLinks
    /\ ufCalls' = Tail(ufCalls)
    /\ UNCHANGED <<pc, diagVars, clusterVars, lcomVars, depsVars, funcVars, fieldVars, parseVars>>

UfAdd ==
    /\ pc = "ufAny"
    /\ \E node \in UfNodePool : unionFind' = add(unionFind, node)
    /\ UNCHANGED <<pc, ufLinks, ufCalls, diagVars, clusterVars, lcomVars, depsVars, funcVars,
                   fieldVars, parseVars>>

UfUnion ==
    /\ pc = "ufAny"
    /\ \E node1, node2 \in DOMAIN unionFind.parent :
           /\ Cardinality(ufLinks \cup {{node1, node2}}) <= MaxUfUnions
           /\ unionFind' = union(unionFind, node1, node2)
           /\ ufLinks' = ufLinks \cup {{node1, node2}}
    /\ UNCHANGED <<pc, ufCalls, diagVars, clusterVars, lcomVars, depsVars, funcVars, fieldVars,
                   parseVars>>

UfFind ==
    /\ pc = "ufAny"
    /\ \E node \in DOMAIN unionFind.parent : unionFind' = find(unionFind, node).uf
    /\ UNCHANGED <<pc, ufLinks, ufCalls, diagVars, clusterVars, lcomVars, depsVars, funcVars,
                   fieldVars, parseVars>>

NextUnionFind == CallerStep \/ UfAdd \/ UfUnion \/ UfFind

SpecUnionFind == InitUnionFind /\ [][NextUnionFind]_vars

(***************************************************************************)
(* Claims about the unionFind, under SpecUnionFind.                         *)
(***************************************************************************)
UfAdded == DOMAIN unionFind.parent

\* the node reached from n by following the parent map k times
UfAncestor(parent, n, k) ==
    LET F[i \in 0..k] == IF i = 0 THEN n ELSE Get(parent, F[i - 1], EmptyString)
    IN  F[k]

\* the nodes that share a root, for a parent map that is a forest
UfSameRoot(parent, a, b) ==
    LET steps == Cardinality(DOMAIN parent)
    IN  UfAncestor(parent, a, steps) = UfAncestor(parent, b, steps)

\* the nodes connected to those of S by the pairs union was called on
RECURSIVE UfConnected(_)
UfConnected(S) ==
    LET more == {n \in UfAdded : \E m \in S : {m, n} \in ufLinks} \ S
    IN  IF more = {} THEN S ELSE UfConnected(S \cup more)

\* C30: in every state of a unionFind the parent map is a forest over the
\* added nodes (from every added node a self-parented root is reached in at
\* most as many steps as there are nodes, and find returns it), two added
\* nodes have the same root exactly when the unions made so far connect them,
\* a find changes neither the nodes nor which of them share a root, and the
\* union or find a caller is about to call is on nodes that were added.
C30_UnionFindIsForestOfUnions ==
    pc \in {"ufAny", "ufCaller"} =>
        /\ \A n \in UfAdded :
              /\ unionFind.parent[n] \in UfAdded
              /\ \E k \in 0..Cardinality(UfAdded) :
                    LET r == UfAncestor(unionFind.parent, n, k)
                    IN  unionFind.parent[r] = r /\ find(unionFind, n).root = r
        /\ \A a, b \in UfAdded :
              UfSameRoot(unionFind.parent, a, b) <=> b \in UfConnected({a})
        /\ \A n \in UfAdded :
              LET after == find(unionFind, n).uf
              IN  /\ DOMAIN after.parent = UfAdded
                  /\ \A a, b \in UfAdded :
                        UfSameRoot(after.parent, a, b) <=> UfSameRoot(unionFind.parent, a, b)
        /\ (ufCalls # <<>> /\ Head(ufCalls)[1] \in {"union", "find"}) =>
              {Head(ufCalls)[2], Head(ufCalls)[3]} \subseteq UfAdded

\* four nodes joined by three unions into one tree of depth two, which a find
\* on the deepest node flattens
C30_Witness ==
    /\ pc = "ufAny"
    /\ Cardinality(UfAdded) = 4
    /\ Cardinality(ufLinks) = 3
    /\ \A a, b \in UfAdded : UfSameRoot(unionFind.parent, a, b)
    /\ \E n \in UfAdded :
          /\ unionFind.parent[unionFind.parent[n]] # unionFind.parent[n]
          /\ find(unionFind, n).uf # unionFind

====
